---- MODULE Spec2Model ----
(***************************************************************************)
(* Hotel reservation front end: the BookRoom page (pricing, service        *)
(* selection, booking submission) and the Payment page, together with the  *)
(* tables and row-level policies of the schema they write to.              *)
(*                                                                         *)
(* Money is counted in whole soles.  A date string is one of the entries   *)
(* of DateStrings or the empty string, which is all a date input yields;   *)
(* Date.getTime() is counted in milliseconds from 2025-01-01T00:00Z        *)
(* instead of from 1970, which leaves every difference of two instants     *)
(* unchanged.  The guest count is an integer (a cleared number input, NaN, *)
(* is left out) and specialRequests keeps its initial value.               *)
(*                                                                         *)
(* An async handler is one action up to its first await and one action per *)
(* response; a request either succeeds, subject to the row-level policies  *)
(* for the session user, or returns an error.  SpecCalc applies            *)
(* calculateTotal to every page state, Spec is the BookRoom page from its  *)
(* mount, SpecPay the Payment page opened on bookings the flow has left.   *)
(***************************************************************************)
EXTENDS Integers, Sequences, FiniteSets, TLC

(* ------------------------------ bounds --------------------------------- *)
MaxSubmits == 1      \* handleSubmit invocations in one behaviour
MaxResubmits == 2    \* handleSubmit invocations on one unchanged draft
MaxAuthEvents == 3    \* auth-state change events the Navbar is sent
MaxAuthCalls == 2     \* handleSignUp and handleSignIn invocations
MaxPayments == 2     \* handlePayment invocations in one behaviour
MaxToggles == 4      \* handleServiceToggle calls counted in one behaviour
MaxSaves == 1        \* handleSave invocations in one behaviour
CalcMaxDay == 4      \* dates offered to calculateTotal on its own

(* --------------------------- reference data ---------------------------- *)
DateStrings ==
  << "2025-01-01", "2025-01-02", "2025-01-03", "2025-01-04",
     "2025-01-05", "2025-01-06", "2025-01-07" >>

MsPerDay == 86400000

NullUser == "null"
UserIds == {"u1", "u2"}
NoSession == "none"

\* public.user_roles: u1 holds only the default client role
user_roles ==
  [u \in UserIds |-> IF u = "u1" THEN {"client"} ELSE {"client", "receptionist"}]

\* who opens the BookRoom page, and for which room
Visits == { << NoSession, "r1" >>, << "u1", "r1" >>, << "u2", "r2" >> }

\* values the inputs of the booking form are given in the submission flow
FormDates == {"", "2025-01-01", "2025-01-03"}
FormGuests == {0, 1, 2}

NullRoom == [id |-> "null", price_per_night |-> 0, capacity |-> 0]

\* public.rooms
rooms ==
  { [id |-> "r1", price_per_night |-> 100, capacity |-> 1],
    [id |-> "r2", price_per_night |-> 280, capacity |-> 2] }

RoomIds == {r.id : r \in rooms}

\* public.additional_services
additional_services ==
  << [id |-> "s1", price |-> 50, active |-> TRUE],
     [id |-> "s2", price |-> 35, active |-> TRUE],
     [id |-> "s3", price |-> 80, active |-> FALSE] >>

ServiceIds == {additional_services[i].id : i \in 1..Len(additional_services)}

(* ------------------------------ helpers -------------------------------- *)
Range(s) == {s[i] : i \in 1..Len(s)}

RECURSIVE SelectSeq2(_, _)
\* Array.prototype.filter with the predicate "id # x"
SelectSeq2(s, x) ==
  IF s = << >> THEN << >>
  ELSE IF Head(s) # x THEN << Head(s) >> \o SelectSeq2(Tail(s), x)
       ELSE SelectSeq2(Tail(s), x)

\* the number NaN, kept apart from every number the model computes: the
\* arithmetic operators pass it on and every comparison with it is false
NaN == -2147483647

NumMinus(a, b) == IF a = NaN \/ b = NaN THEN NaN ELSE a - b
NumTimes(a, b) == IF a = NaN \/ b = NaN THEN NaN ELSE a * b
NumPlus(a, b) == IF a = NaN \/ b = NaN THEN NaN ELSE a + b
NumLess(a, b) == a # NaN /\ b # NaN /\ a < b
NumLessEq(a, b) == a # NaN /\ b # NaN /\ a <= b

\* new Date(str).getTime(): UTC midnight for a date-only string, NaN for the
\* Invalid Date any other text gives
DateGetTime(str) ==
  IF str \in Range(DateStrings)
    THEN ((CHOOSE i \in 1..Len(DateStrings) : DateStrings[i] = str) - 1) * MsPerDay
    ELSE NaN

\* Math.max(1, Math.ceil(a / b)): a stay never shorter than one night
MathCeilDivAtLeastOne(a, b) ==
  IF a = NaN THEN NaN
  ELSE IF -((-a) \div b) < 1 THEN 1 ELSE -((-a) \div b)

\* Math.ceil(a / b) for b > 0
MathCeilDiv(a, b) == IF a = NaN THEN NaN ELSE -((-a) \div b)

\* services.find(s => s.id === serviceId): index of the first match, 0 if none
FindService(svcs, serviceId) ==
  IF \E i \in 1..Len(svcs) : svcs[i].id = serviceId
  THEN CHOOSE i \in 1..Len(svcs) :
         /\ svcs[i].id = serviceId
         /\ \A j \in 1..(i - 1) : svcs[j].id # serviceId
  ELSE 0

RECURSIVE AddServicePricesAssign(_, _, _)
\* "total = service.price" in place of "total += service.price"
AddServicePricesAssign(total, sel, svcs) ==
  IF sel = << >> THEN total
  ELSE LET k == FindService(svcs, Head(sel))
       IN AddServicePricesAssign(IF k # 0 THEN svcs[k].price ELSE total,
                                 Tail(sel), svcs)

RECURSIVE AddServicePricesSubtract(_, _, _)
\* "total -= service.price" in place of "total += service.price"
AddServicePricesSubtract(total, sel, svcs) ==
  IF sel = << >> THEN total
  ELSE LET k == FindService(svcs, Head(sel))
       IN AddServicePricesSubtract(
            IF k # 0 THEN NumMinus(total, svcs[k].price) ELSE total,
            Tail(sel), svcs)

RECURSIVE AddServicePrices(_, _, _)
\* the forEach loop of calculateTotal
AddServicePrices(total, sel, svcs) ==
  IF sel = << >> THEN total
  ELSE LET k == FindService(svcs, Head(sel))
       IN AddServicePrices(IF k # 0 THEN NumPlus(total, svcs[k].price) ELSE total,
                           Tail(sel), svcs)

calculateTotal(rm, fd, sel, svcs) ==
  IF rm = NullRoom \/ fd.checkIn = "" \/ fd.checkOut = "" THEN 0
  ELSE LET checkIn == DateGetTime(fd.checkIn)
           checkOut == DateGetTime(fd.checkOut)
           nights == MathCeilDiv(NumMinus(checkOut, checkIn), MsPerDay)
       IN AddServicePrices(NumTimes(nights, rm.price_per_night), sel, svcs)

\* the updater without the includes test: prev => [...prev, serviceId]
ToggleSelectionAppend(prev, serviceId) == Append(prev, serviceId)

\* handleServiceToggle's state updater
ToggleSelection(prev, serviceId) ==
  IF serviceId \in Range(prev) THEN SelectSeq2(prev, serviceId)
  ELSE Append(prev, serviceId)

\* fetchServices: the rows the select with .eq('active', true) returns
ActiveServices == SelectSeq(additional_services, LAMBDA s : s.active)

(* ------------------------------- state --------------------------------- *)
VARIABLES
  session,            \* supabase.auth: id of the signed-in user, or NoSession
  roomId,             \* useParams() of the BookRoom page
  bookings,           \* public.bookings, a row's id is its index
  booking_services,   \* public.booking_services
  user, room, services, selectedServices, loading, formData,  \* BookRoom state
  pending,            \* requests of the mount effect still awaited
  location,           \* last target given to navigate(); "/book" before any
  notices,            \* toasts raised by the mount effect
  subs,               \* handleSubmit invocations, each with its closure
  calcResult,         \* << >> or the value calculateTotal returned
  payments,           \* public.payments, a row's id is its index
  receipts,           \* bodies the generate-receipt function was invoked with
  bookingId,          \* useParams() of the Payment page
  payUser, booking, payLoading, processing, selectedMethod,  \* Payment state
  payPending,         \* requests of the Payment mount effect still awaited
  pays,               \* handlePayment invocations, each with its closure
  navUser, isReceptionist,  \* Navbar state
  sessionPending,     \* the getSession() promise of the Navbar is not settled
  rolePending,        \* user ids of the checkUserRole queries still awaited
  authEvents,         \* auth-state change events sent so far
  authLoading, signUpData, signInData,  \* Auth state
  authCalls,          \* calls of supabase.auth.signUp and signInWithPassword
  auths,              \* handleSignUp and handleSignIn invocations
  profiles,           \* public.profiles, one row per user id
  profile, profUser, profLoading, saving,  \* Profile state
  profPending,        \* requests of the Profile mount effect still awaited
  saves,              \* handleSave invocations, each with its closure
  toggleCount         \* handleServiceToggle calls so far, per service id

dbVars == << bookings, booking_services >>
pageVars == << user, room, services, selectedServices, loading, formData,
               pending, notices >>
payVars == << payments, receipts, bookingId, payUser, booking, payLoading,
              processing, selectedMethod, payPending, pays >>
vars == << session, roomId, bookings, booking_services, user, room, services,
           selectedServices, loading, formData, pending, location, notices,
           subs, calcResult, payments, receipts, bookingId, payUser, booking,
           payLoading, processing, selectedMethod, payPending, pays,
           navUser, isReceptionist, sessionPending, rolePending, authEvents,
           authLoading, signUpData, signInData, authCalls, auths,
           profiles, profile, profUser, profLoading, saving, profPending, saves,
           toggleCount >>
authVars == << authLoading, signUpData, signInData, authCalls, auths >>
profileVars == << profiles, profile, profUser, profLoading, saving, profPending,
                 saves >>
accountVars == << authVars, profileVars, toggleCount >>
navVars == << navUser, isReceptionist, sessionPending, rolePending, authEvents >>

NullBooking == [id |-> 0, total_amount |-> 0]

\* the Payment page as its useState calls leave it, nothing requested
PaymentIdle ==
  /\ payments = << >>
  /\ receipts = << >>
  /\ bookingId = 0
  /\ payUser = NullUser
  /\ booking = NullBooking
  /\ payLoading = TRUE
  /\ processing = FALSE
  /\ selectedMethod = "yape"
  /\ payPending = {}
  /\ pays = << >>

\* the Navbar as its useState calls leave it, its effect not yet run
NavbarIdle ==
  /\ navUser = NullUser
  /\ isReceptionist = FALSE
  /\ sessionPending = FALSE
  /\ rolePending = {}
  /\ authEvents = 0

\* one character per element, so that lengths and digits can be tested
EmptyText == << >>

\* the Auth page as its useState calls leave it
AuthIdle ==
  /\ authLoading = FALSE
  /\ signUpData = [fullName |-> EmptyText, email |-> EmptyText, dni |-> EmptyText,
                   phone |-> EmptyText, address |-> EmptyText,
                   password |-> EmptyText]
  /\ signInData = [email |-> EmptyText, password |-> EmptyText]
  /\ authCalls = << >>
  /\ auths = << >>

\* public.profiles as handle_new_user filled it at registration
ProfileRows ==
  [u \in UserIds |->
     [id |-> u, email |-> IF u = "u1" THEN "ana@hotel.pe" ELSE "luis@hotel.pe",
      full_name |-> IF u = "u1" THEN "Ana" ELSE "Luis",
      phone |-> "", address |-> "", dni |-> ""]]

NullProfile ==
  [id |-> NullUser, email |-> "", full_name |-> "", phone |-> "", address |-> "",
   dni |-> ""]

\* the Profile page as its useState calls leave it, nothing requested
ProfileIdle ==
  /\ profiles = ProfileRows
  /\ profile = NullProfile
  /\ profUser = NullUser
  /\ profLoading = TRUE
  /\ saving = FALSE
  /\ profPending = {}
  /\ saves = << >>

\* no service has been toggled
TogglesIdle == toggleCount = [id \in ServiceIds |-> 0]

AccountIdle == AuthIdle /\ ProfileIdle /\ TogglesIdle

InitialFormData ==
  [checkIn |-> "", checkOut |-> "", guests |-> 1, specialRequests |-> ""]

(* --------------------------- the remote store -------------------------- *)
HasRole(uid, role) == uid \in UserIds /\ role \in user_roles[uid]

IsStaff(uid) == HasRole(uid, "receptionist") \/ HasRole(uid, "admin")

\* the insert also refused when the room is booked for an overlapping stay
BookingsInsertPolicyNoOverlap(uid, row) ==
  /\ uid = row.user_id
  /\ \A b \in 1..Len(bookings) :
       ~(/\ bookings[b].room_id = row.room_id
         /\ DateGetTime(bookings[b].check_in) < DateGetTime(row.check_out)
         /\ DateGetTime(row.check_in) < DateGetTime(bookings[b].check_out))

\* the insert also refused when the table holds an equal row
BookingsInsertPolicyOncePerStay(uid, row) ==
  /\ uid = row.user_id
  /\ \A b \in 1..Len(bookings) : bookings[b] # row

\* "Users can create their own bookings"
BookingsInsertPolicy(uid, row) == uid = row.user_id

\* "Receptionists can update all bookings": the only UPDATE policy
BookingsUpdatePolicy(uid, row) == IsStaff(uid)

\* USING (true): every signed-in user can view every booking
BookingsSelectPolicyPublic(uid, row) == uid \in UserIds

\* "Users can view their own bookings", "Receptionists can view all bookings"
BookingsSelectPolicy(uid, row) == uid = row.user_id \/ IsStaff(uid)

\* "Users can add services to their bookings", "Receptionists can manage ..."
BookingServicesInsertPolicy(uid, row, bks) ==
  \/ \E b \in 1..Len(bks) : b = row.booking_id /\ bks[b].user_id = uid
  \/ IsStaff(uid)

\* UNIQUE(booking_id, service_id)
BookingServicesUnique(rows) ==
  \A i, j \in 1..Len(rows) :
    (rows[i].booking_id = rows[j].booking_id
       /\ rows[i].service_id = rows[j].service_id) => i = j

(* ------------------------- BookRoom: mount effect ---------------------- *)
BookPage == [path |-> "/book", id |-> 0]

Mounted == location = BookPage

\* the form is rendered: neither the loading skeleton nor the null page
FormShown == Mounted /\ ~loading /\ room # NullRoom

Init ==
  /\ \E v \in Visits : session = v[1] /\ roomId = v[2]
  /\ bookings = << >>
  /\ booking_services = << >>
  /\ user = NullUser
  /\ room = NullRoom
  /\ services = << >>
  /\ selectedServices = << >>
  /\ loading = TRUE
  /\ formData = InitialFormData
  /\ pending = {"checkAuth", "fetchRoom", "fetchServices"}
  /\ location = BookPage
  /\ notices = {}
  /\ subs = << >>
  /\ calcResult = << >>
  /\ PaymentIdle
  /\ NavbarIdle
  /\ AccountIdle

checkAuth ==
  /\ "checkAuth" \in pending
  /\ pending' = pending \ {"checkAuth"}
  /\ IF session = NoSession
     THEN /\ notices' = notices \cup {"Debes iniciar sesión para reservar"}
          /\ location' = [path |-> "/auth", id |-> 0]
          /\ user' = user
     ELSE /\ user' = (IF Mounted THEN session ELSE user)
          /\ UNCHANGED << notices, location >>
  /\ UNCHANGED << session, roomId, dbVars, room, services, selectedServices,
                  loading, formData, subs, calcResult, payVars, navVars, accountVars >>

fetchRoom ==
  /\ "fetchRoom" \in pending
  /\ pending' = pending \ {"fetchRoom"}
  /\ \/ /\ \E r \in rooms : r.id = roomId /\ room' = (IF Mounted THEN r ELSE room)
        /\ UNCHANGED << notices, location >>
     \/ /\ notices' = notices \cup {"Error al cargar la habitación"}
        /\ location' = [path |-> "/rooms", id |-> 0]
        /\ room' = room
  /\ loading' = (IF Mounted THEN FALSE ELSE loading)
  /\ UNCHANGED << session, roomId, dbVars, user, services, selectedServices,
                  formData, subs, calcResult, payVars, navVars, accountVars >>

fetchServices ==
  /\ "fetchServices" \in pending
  /\ pending' = pending \ {"fetchServices"}
  /\ \/ services' = (IF Mounted THEN ActiveServices ELSE services)
     \/ services' = services
  /\ UNCHANGED << session, roomId, dbVars, user, room, selectedServices, loading,
                  formData, location, notices, subs, calcResult, payVars, navVars, accountVars >>

(* --------------------------- BookRoom: the form ------------------------ *)
SetCheckIn(v) ==
  /\ FormShown
  /\ formData' = [formData EXCEPT !.checkIn = v]
  /\ UNCHANGED << session, roomId, dbVars, user, room, services, selectedServices,
                  loading, pending, location, notices, subs, calcResult, payVars, navVars, accountVars >>

SetCheckOut(v) ==
  /\ FormShown
  /\ formData' = [formData EXCEPT !.checkOut = v]
  /\ UNCHANGED << session, roomId, dbVars, user, room, services, selectedServices,
                  loading, pending, location, notices, subs, calcResult, payVars, navVars, accountVars >>

SetGuests(v) ==
  /\ FormShown
  /\ formData' = [formData EXCEPT !.guests = v]
  /\ UNCHANGED << session, roomId, dbVars, user, room, services, selectedServices,
                  loading, pending, location, notices, subs, calcResult, payVars, navVars, accountVars >>

handleServiceToggle(serviceId) ==
  /\ FormShown
  /\ FindService(services, serviceId) # 0
  /\ selectedServices' = ToggleSelection(selectedServices, serviceId)
  /\ UNCHANGED << session, roomId, dbVars, user, room, services, loading, formData,
                  pending, location, notices, subs, calcResult, payVars, navVars, accountVars >>

(* ------------------------- BookRoom: handleSubmit ---------------------- *)
\* the schema with guests as its first key
bookingSchemaGuestsFirst(data) ==
  (IF data.guests < 1
     THEN << [path |-> "guests", message |-> "Debe haber al menos 1 huésped"] >>
     ELSE << >>)
  \o (IF data.checkIn = ""
        THEN << [path |-> "checkIn", message |-> "Selecciona fecha de entrada"] >>
        ELSE << >>)
  \o (IF data.checkOut = ""
        THEN << [path |-> "checkOut", message |-> "Selecciona fecha de salida"] >>
        ELSE << >>)

\* guests: z.number().min(0, ...)
bookingSchemaMinZero(data) ==
  (IF data.checkIn = ""
     THEN << [path |-> "checkIn", message |-> "Selecciona fecha de entrada"] >>
     ELSE << >>)
  \o (IF data.checkOut = ""
        THEN << [path |-> "checkOut", message |-> "Selecciona fecha de salida"] >>
        ELSE << >>)
  \o (IF data.guests < 0
        THEN << [path |-> "guests", message |-> "Debe haber al menos 1 huésped"] >>
        ELSE << >>)

\* bookingSchema.parse: the issues of the ZodError, in the order of the keys
bookingSchema(data) ==
  (IF data.checkIn = ""
     THEN << [path |-> "checkIn", message |-> "Selecciona fecha de entrada"] >>
     ELSE << >>)
  \o (IF data.checkOut = ""
        THEN << [path |-> "checkOut", message |-> "Selecciona fecha de salida"] >>
        ELSE << >>)
  \o (IF data.guests < 1
        THEN << [path |-> "guests", message |-> "Debe haber al menos 1 huésped"] >>
        ELSE << >>)

NoRow ==
  [user_id |-> NullUser, room_id |-> "null", check_in |-> "", check_out |-> "",
   guests |-> 0, total_amount |-> 0, special_requests |-> "", status |-> ""]

ErrorToast(msg) == [kind |-> "error", message |-> msg]
SuccessToast(msg) == [kind |-> "success", message |-> msg]

\* an invocation that returned before its first await; an invocation that has
\* returned keeps no closure, only what it reported
Rejected(msg) ==
  [pc |-> "rejected", row |-> NoRow, sel |-> << >>, booking_id |-> 0,
   toasts |-> << ErrorToast(msg) >>]

\* guests: Math.min(validatedData.guests, room.capacity)
BookingPayloadWithinCapacity(u, rm, validatedData, fd, total) ==
  [user_id |-> u, room_id |-> rm.id,
   check_in |-> validatedData.checkIn, check_out |-> validatedData.checkOut,
   guests |-> IF validatedData.guests > rm.capacity THEN rm.capacity
              ELSE validatedData.guests,
   total_amount |-> total,
   special_requests |-> fd.specialRequests, status |-> "pendiente"]

\* status: 'confirmada' in the insert
BookingPayloadConfirmed(u, rm, validatedData, fd, total) ==
  [user_id |-> u, room_id |-> rm.id,
   check_in |-> validatedData.checkIn, check_out |-> validatedData.checkOut,
   guests |-> validatedData.guests, total_amount |-> total,
   special_requests |-> fd.specialRequests, status |-> "confirmada"]

\* the object given to supabase.from('bookings').insert
BookingPayload(u, rm, validatedData, fd, total) ==
  [user_id |-> u, room_id |-> rm.id,
   check_in |-> validatedData.checkIn, check_out |-> validatedData.checkOut,
   guests |-> validatedData.guests, total_amount |-> total,
   special_requests |-> fd.specialRequests, status |-> "pendiente"]

\* quantity: selectedServices.length
ServiceRecordsQuantity(sel, id) ==
  [k \in 1..Len(sel) |->
     [booking_id |-> id, service_id |-> sel[k], quantity |-> Len(sel)]]

\* selectedServices.map(serviceId => ({ booking_id, service_id, quantity: 1 }))
ServiceRecords(sel, id) ==
  [k \in 1..Len(sel) |->
     [booking_id |-> id, service_id |-> sel[k], quantity |-> 1]]

\* if (checkOut < checkIn)
DateOrderRejectedStrict(checkIn, checkOut) ==
  NumLess(DateGetTime(checkOut), DateGetTime(checkIn))

\* if (checkOut <= checkIn), on the two Date objects
DateOrderRejected(checkIn, checkOut) ==
  NumLessEq(DateGetTime(checkOut), DateGetTime(checkIn))

\* the booking_services insert issued without awaiting the bookings insert
AcceptedLinksFirst(row, sel) ==
  [pc |-> IF Len(sel) > 0 THEN "insertServices" ELSE "insertBooking",
   row |-> row, sel |-> sel, booking_id |-> 0, toasts |-> << >>]

\* an invocation suspended at its first await, the bookings insert in flight
Accepted(row, sel) ==
  [pc |-> "insertBooking", row |-> row, sel |-> sel, booking_id |-> 0,
   toasts |-> << >>]

\* the handler with "setFormData(initial)" before each early return
handleSubmitClearing(limit) ==
  /\ FormShown
  /\ Len(subs) < limit
  /\ LET validatedData == [checkIn |-> formData.checkIn,
                           checkOut |-> formData.checkOut,
                           guests |-> formData.guests]
         issues == bookingSchema(validatedData)
         sub ==
          IF user = NullUser \/ room = NullRoom
            THEN Rejected("Error en la sesión")
          ELSE IF issues # << >>
            THEN Rejected(issues[1].message)
          ELSE IF DateOrderRejected(validatedData.checkIn, validatedData.checkOut)
            THEN Rejected("La fecha de salida debe ser posterior a la fecha de entrada")
          ELSE Accepted(BookingPayload(user, room, validatedData, formData,
                          calculateTotal(room, formData, selectedServices, services)),
                        selectedServices)
     IN /\ subs' = Append(subs, sub)
        /\ formData' = (IF sub.pc = "rejected" THEN InitialFormData ELSE formData)
  /\ UNCHANGED << session, roomId, dbVars, user, room, services, selectedServices,
                  loading, pending, notices, location, calcResult, payVars, navVars, accountVars >>

\* the handler without "if (!user || !room)"
handleSubmitNoSessionCheck(limit) ==
  /\ FormShown
  /\ Len(subs) < limit
  /\ LET validatedData == [checkIn |-> formData.checkIn,
                           checkOut |-> formData.checkOut,
                           guests |-> formData.guests]
         issues == bookingSchema(validatedData)
     IN subs' = Append(subs,
          IF issues # << >>
            THEN Rejected(issues[1].message)
          ELSE IF DateOrderRejected(validatedData.checkIn, validatedData.checkOut)
            THEN Rejected("La fecha de salida debe ser posterior a la fecha de entrada")
          ELSE Accepted(BookingPayload(user, room, validatedData, formData,
                          calculateTotal(room, formData, selectedServices, services)),
                        selectedServices))
  /\ UNCHANGED << session, roomId, dbVars, pageVars, location, calcResult, payVars, navVars, accountVars >>

\* the handler up to its first await; limit caps the invocations explored
handleSubmit(limit) ==
  /\ FormShown
  /\ Len(subs) < limit
  /\ LET validatedData == [checkIn |-> formData.checkIn,
                           checkOut |-> formData.checkOut,
                           guests |-> formData.guests]
         issues == bookingSchema(validatedData)
     IN subs' = Append(subs,
          IF user = NullUser \/ room = NullRoom
            THEN Rejected("Error en la sesión")
          ELSE IF issues # << >>
            THEN Rejected(issues[1].message)
          ELSE IF DateOrderRejected(validatedData.checkIn, validatedData.checkOut)
            THEN Rejected("La fecha de salida debe ser posterior a la fecha de entrada")
          ELSE Accepted(BookingPayload(user, room, validatedData, formData,
                          calculateTotal(room, formData, selectedServices, services)),
                        selectedServices))
  /\ UNCHANGED << session, roomId, dbVars, pageVars, location, calcResult, payVars, navVars, accountVars >>

\* error.message of a failed request; empty when the error carries none
RemoteMessages == {"", "new row violates row-level security policy"}

\* the catch block logging to the console instead of raising a toast
FailureSilent(sub, pc, msg, fallback) ==
  [sub EXCEPT !.pc = pc, !.row = NoRow, !.sel = << >>]

Failure(sub, pc, msg, fallback) ==
  [sub EXCEPT !.pc = pc, !.row = NoRow, !.sel = << >>,
              !.toasts = Append(@, ErrorToast(IF msg # "" THEN msg ELSE fallback))]

\* the bookings insert returns
BookingInsertReturn(i) ==
  /\ subs[i].pc = "insertBooking"
  /\ \/ /\ BookingsInsertPolicy(session, subs[i].row)
        /\ LET id == Len(bookings) + 1 IN
           /\ bookings' = Append(bookings, subs[i].row)
           /\ IF Len(subs[i].sel) > 0
              THEN /\ subs' = [subs EXCEPT ![i].pc = "insertServices",
                                           ![i].booking_id = id]
                   /\ location' = location
              ELSE /\ subs' = [subs EXCEPT
                        ![i].pc = "done", ![i].booking_id = id,
                        ![i].toasts = Append(@, SuccessToast("Reserva creada exitosamente"))]
                   /\ location' = [path |-> "/payment", id |-> id]
     \/ /\ \E msg \in RemoteMessages :
             subs' = [subs EXCEPT ![i] =
                        Failure(@, "bookingFailed", msg, "Error al crear la reserva")]
        /\ UNCHANGED << bookings, location >>
  /\ UNCHANGED << session, roomId, booking_services, pageVars, calcResult, payVars, navVars, accountVars >>

\* "if (servicesError) throw servicesError" left out: the flow goes on
ServicesInsertErrorIgnored(i) ==
  /\ subs' = [subs EXCEPT
        ![i].pc = "done",
        ![i].toasts = Append(@, SuccessToast("Reserva creada exitosamente"))]
  /\ location' = [path |-> "/payment", id |-> subs[i].booking_id]
  /\ UNCHANGED booking_services

\* the booking_services insert returns an error: thrown, caught, reported
ServicesInsertError(i) ==
  /\ \E msg \in RemoteMessages :
       subs' = [subs EXCEPT ![i] =
                  Failure(@, "servicesFailed", msg, "Error al crear la reserva")]
  /\ UNCHANGED << booking_services, location >>

\* the booking_services insert returns
ServicesInsertReturn(i) ==
  /\ subs[i].pc = "insertServices"
  /\ \/ LET records == ServiceRecords(subs[i].sel, subs[i].booking_id) IN
        /\ \A k \in 1..Len(records) :
             BookingServicesInsertPolicy(session, records[k], bookings)
        /\ BookingServicesUnique(booking_services \o records)
        /\ booking_services' = booking_services \o records
        /\ subs' = [subs EXCEPT
              ![i].pc = "done",
              ![i].toasts = Append(@, SuccessToast("Reserva creada exitosamente"))]
        /\ location' = [path |-> "/payment", id |-> subs[i].booking_id]
     \/ ServicesInsertError(i)
  /\ UNCHANGED << session, roomId, bookings, pageVars, calcResult, payVars, navVars, accountVars >>

Next ==
  \/ checkAuth
  \/ fetchRoom
  \/ fetchServices
  \/ \E v \in FormDates : SetCheckIn(v)
  \/ \E v \in FormDates : SetCheckOut(v)
  \/ \E v \in FormGuests : SetGuests(v)
  \/ \E serviceId \in ServiceIds : handleServiceToggle(serviceId)
  \/ handleSubmit(MaxSubmits)
  \/ \E i \in 1..Len(subs) : BookingInsertReturn(i)
  \/ \E i \in 1..Len(subs) : ServicesInsertReturn(i)

Spec == Init /\ [][Next]_vars

(* ------------- BookRoom: another guest books the same room ------------ *)
\* the draft of the other guest: a stay that overlaps 2025-01-01 to 2025-01-03
OtherStay ==
  [checkIn |-> "2025-01-02", checkOut |-> "2025-01-04", guests |-> 1,
   specialRequests |-> ""]

\* the bookings insert of handleSubmit run by another signed-in user on the
\* page of the same room, at any moment
OtherGuestBooks ==
  /\ \A b \in 1..Len(bookings) : bookings[b].user_id = session
  /\ \E other \in UserIds \ {session} :
       LET row == BookingPayload(other, room, OtherStay, OtherStay,
                    calculateTotal(room, OtherStay, << >>, services))
       IN /\ BookingsInsertPolicy(other, row)
          /\ bookings' = Append(bookings, row)
  /\ UNCHANGED << session, roomId, booking_services, pageVars, location, subs,
                  calcResult, payVars, navVars, accountVars >>

(* ------------------------------ Payment page -------------------------- *)
\* a Booking row as the submission flow leaves it, with its service row
PaidRow(uid) ==
  [user_id |-> uid, room_id |-> "r1", check_in |-> "2025-01-01",
   check_out |-> "2025-01-03", guests |-> 1, total_amount |-> 250,
   special_requests |-> "", status |-> "pendiente"]

\* the bookings the Payment page is opened on
OwnersAtPayment == { << "u1" >>, << "u2" >>, << "u1", "u2" >> }

\* radio buttons of the page used in the model
MethodInputs == {"yape", "tarjeta_bcp"}

\* the insert also refused when the booking already has a completed payment
PaymentsInsertPolicyOnePerBooking(uid, row) ==
  /\ uid = row.user_id
  /\ \A k \in 1..Len(payments) :
       ~(payments[k].booking_id = row.booking_id /\ payments[k].status = "completado")

\* "Users can create their own payments"
PaymentsInsertPolicy(uid, row) == uid = row.user_id

\* "Users can view their own payments", "Receptionists can view all payments"
PaymentsSelectPolicy(uid, row) == uid = row.user_id \/ IsStaff(uid)

PaymentPage(id) == [path |-> "/payment", id |-> id]

PayMounted == location = PaymentPage(bookingId)

PayShown == PayMounted /\ ~payLoading /\ booking # NullBooking

InitPay ==
  /\ session \in {NoSession} \cup UserIds
  /\ roomId = "r1"
  /\ \E owners \in OwnersAtPayment :
       /\ bookings = [b \in 1..Len(owners) |-> PaidRow(owners[b])]
       /\ booking_services =
            [b \in 1..Len(owners) |->
               [booking_id |-> b, service_id |-> "s1", quantity |-> 1]]
  /\ user = NullUser
  /\ room = NullRoom
  /\ services = << >>
  /\ selectedServices = << >>
  /\ loading = TRUE
  /\ formData = InitialFormData
  /\ pending = {}
  /\ notices = {}
  /\ subs = << >>
  /\ calcResult = << >>
  /\ payments = << >>
  /\ receipts = << >>
  /\ bookingId \in 1..Len(bookings)
  /\ location = PaymentPage(bookingId)
  /\ payUser = NullUser
  /\ booking = NullBooking
  /\ payLoading = TRUE
  /\ processing = FALSE
  /\ selectedMethod = "yape"
  /\ payPending = {"checkAuth", "fetchBooking"}
  /\ pays = << >>
  /\ NavbarIdle
  /\ AccountIdle

flowVars == << roomId, booking_services, user, room, services, selectedServices,
               loading, formData, pending, subs, calcResult >>

\* Payment's checkAuth
PayCheckAuth ==
  /\ "checkAuth" \in payPending
  /\ payPending' = payPending \ {"checkAuth"}
  /\ IF session = NoSession
     THEN /\ notices' = notices \cup {"Sesión expirada"}
          /\ location' = [path |-> "/auth", id |-> 0]
          /\ payUser' = payUser
     ELSE /\ payUser' = (IF PayMounted THEN session ELSE payUser)
          /\ UNCHANGED << notices, location >>
  /\ UNCHANGED << session, flowVars, navVars, accountVars, bookings, payments, receipts, bookingId,
                  booking, payLoading, processing, selectedMethod, pays >>

fetchBooking ==
  /\ "fetchBooking" \in payPending
  /\ payPending' = payPending \ {"fetchBooking"}
  /\ \/ /\ bookingId \in 1..Len(bookings)
        /\ BookingsSelectPolicy(session, bookings[bookingId])
        /\ booking' = (IF PayMounted
                         THEN [id |-> bookingId,
                               total_amount |-> bookings[bookingId].total_amount]
                         ELSE booking)
        /\ UNCHANGED << notices, location >>
     \/ /\ notices' = notices \cup {"Error al cargar la reserva"}
        /\ location' = [path |-> "/bookings", id |-> 0]
        /\ booking' = booking
  /\ payLoading' = (IF PayMounted THEN FALSE ELSE payLoading)
  /\ UNCHANGED << session, flowVars, navVars, accountVars, bookings, payments, receipts, bookingId,
                  payUser, processing, selectedMethod, pays >>

setSelectedMethod(m) ==
  /\ PayShown
  /\ selectedMethod' = m
  /\ UNCHANGED << session, flowVars, navVars, accountVars, bookings, location, notices, payments,
                  receipts, bookingId, payUser, booking, payLoading, processing,
                  payPending, pays >>

\* status: 'pendiente' in the insert
PaymentPayloadPending(bk, u, method) ==
  [booking_id |-> bk.id, user_id |-> u, amount |-> bk.total_amount,
   payment_method |-> method, status |-> "pendiente"]

\* the object given to supabase.from('payments').insert
PaymentPayload(bk, u, method) ==
  [booking_id |-> bk.id, user_id |-> u, amount |-> bk.total_amount,
   payment_method |-> method, status |-> "completado"]

\* the handler up to the payments insert; the button is disabled while
\* processing is set, and the handler returns at once without a user
handlePayment ==
  /\ PayShown
  /\ ~processing
  /\ payUser # NullUser
  /\ Len(pays) < MaxPayments
  /\ processing' = TRUE
  /\ pays' = Append(pays,
       [pc |-> "insertPayment", page |-> bookingId,
        row |-> PaymentPayload(booking, payUser, selectedMethod),
        payment_id |-> 0, toasts |-> << >>, functionError |-> FALSE])
  /\ UNCHANGED << session, flowVars, navVars, accountVars, bookings, location, notices, payments,
                  receipts, bookingId, payUser, booking, payLoading,
                  selectedMethod, payPending >>

\* catch and finally of handlePayment
PaymentFailure(pay, msg) ==
  [pay EXCEPT !.pc = "failed",
              !.toasts = Append(@, ErrorToast(IF msg # "" THEN msg
                                              ELSE "Error al procesar el pago"))]

\* setProcessing(false) in the try block only, after navigate
ProcessingClearedOnSuccess(pay) ==
  IF pay.pc = "invokeReceipt" /\ PayMounted /\ pay.page = bookingId THEN FALSE
  ELSE processing

\* setProcessing(false) reaches the page only while it is still mounted
ProcessingCleared(pay) == IF PayMounted /\ pay.page = bookingId THEN FALSE ELSE processing

PaymentInsertReturn(i) ==
  /\ pays[i].pc = "insertPayment"
  /\ \/ /\ PaymentsInsertPolicy(session, pays[i].row)
        /\ payments' = Append(payments, pays[i].row)
        /\ pays' = [pays EXCEPT ![i].pc = "updateBooking",
                                ![i].payment_id = Len(payments) + 1]
        /\ UNCHANGED processing
     \/ /\ \E msg \in RemoteMessages : pays' = [pays EXCEPT ![i] = PaymentFailure(@, msg)]
        /\ processing' = ProcessingCleared(pays[i])
        /\ UNCHANGED payments
  /\ UNCHANGED << session, flowVars, navVars, accountVars, bookings, location, notices, receipts,
                  bookingId, payUser, booking, payLoading, selectedMethod,
                  payPending >>

\* update({ status: 'confirmada' }).eq('id', id) as the store runs it for uid:
\* rows the UPDATE policy hides are not updated and no error is returned
UpdateBookingStatus(bks, uid, id) ==
  [b \in 1..Len(bks) |->
     IF b = id /\ BookingsUpdatePolicy(uid, bks[b])
       THEN [bks[b] EXCEPT !.status = "confirmada"]
       ELSE bks[b]]

BookingUpdateReturn(i) ==
  /\ pays[i].pc = "updateBooking"
  /\ \/ /\ bookings' = UpdateBookingStatus(bookings, session, pays[i].row.booking_id)
        /\ receipts' = Append(receipts, [paymentId |-> pays[i].payment_id])
        /\ pays' = [pays EXCEPT ![i].pc = "invokeReceipt"]
        /\ UNCHANGED processing
     \/ /\ \E msg \in RemoteMessages : pays' = [pays EXCEPT ![i] = PaymentFailure(@, msg)]
        /\ processing' = ProcessingCleared(pays[i])
        /\ UNCHANGED << bookings, receipts >>
  /\ UNCHANGED << session, flowVars, navVars, accountVars, location, notices, payments, bookingId,
                  payUser, booking, payLoading, selectedMethod, payPending >>

\* "if (functionError) throw functionError": the error reaches the catch block
ReceiptReturnThrows(i) ==
  /\ pays[i].pc = "invokeReceipt"
  /\ \E err \in BOOLEAN :
       /\ pays' = [pays EXCEPT ![i] =
            IF err THEN [PaymentFailure(@, "") EXCEPT !.functionError = TRUE]
            ELSE [@ EXCEPT !.pc = "done",
                    !.toasts = Append(@, SuccessToast("¡Pago procesado exitosamente!"))]]
       /\ location' = (IF err THEN location ELSE [path |-> "/bookings", id |-> 0])
  /\ processing' = ProcessingCleared(pays[i])
  /\ UNCHANGED << session, flowVars, navVars, accountVars, bookings, notices, payments, receipts,
                  bookingId, payUser, booking, payLoading, selectedMethod,
                  payPending >>

\* generate-receipt returns, with or without an error: lines 310-313, 317
ReceiptReturn(i) ==
  /\ pays[i].pc = "invokeReceipt"
  /\ \E err \in BOOLEAN :
       pays' = [pays EXCEPT
         ![i].pc = "done", ![i].functionError = err,
         ![i].toasts = Append(@, SuccessToast("¡Pago procesado exitosamente!"))]
  /\ location' = [path |-> "/bookings", id |-> 0]
  /\ processing' = ProcessingCleared(pays[i])
  /\ UNCHANGED << session, flowVars, navVars, accountVars, bookings, notices, payments, receipts,
                  bookingId, payUser, booking, payLoading, selectedMethod,
                  payPending >>

\* the Payment page is opened again for a booking, from the list or by URL
OpenPayment(id) ==
  /\ location = [path |-> "/bookings", id |-> 0]
  /\ Len(pays) < MaxPayments
  /\ bookingId' = id
  /\ location' = PaymentPage(id)
  /\ payUser' = NullUser
  /\ booking' = NullBooking
  /\ payLoading' = TRUE
  /\ processing' = FALSE
  /\ selectedMethod' = "yape"
  /\ payPending' = {"checkAuth", "fetchBooking"}
  /\ UNCHANGED << session, flowVars, navVars, accountVars, bookings, notices, payments, receipts, pays >>

NextPay ==
  \/ PayCheckAuth
  \/ fetchBooking
  \/ \E m \in MethodInputs : setSelectedMethod(m)
  \/ handlePayment
  \/ \E i \in 1..Len(pays) : PaymentInsertReturn(i)
  \/ \E i \in 1..Len(pays) : BookingUpdateReturn(i)
  \/ \E i \in 1..Len(pays) : ReceiptReturn(i)
  \/ \E id \in 1..Len(bookings) : OpenPayment(id)

SpecPay == InitPay /\ [][NextPay]_vars

(* ------------------- calculateTotal on its own (SpecCalc) -------------- *)
CalcDates == {""} \cup {DateStrings[i] : i \in 1..CalcMaxDay}

\* the selections handleServiceToggle can build from the loaded services
Selections(svcs) ==
  {sel \in UNION {[1..n -> {svcs[k].id : k \in 1..Len(svcs)}] : n \in 0..Len(svcs)} :
     \A i, j \in 1..Len(sel) : sel[i] = sel[j] => i = j}

InitCalc ==
  /\ session = NoSession
  /\ roomId = "r1"
  /\ bookings = << >>
  /\ booking_services = << >>
  /\ user = NullUser
  /\ room \in rooms \cup {NullRoom}
  /\ services \in {<< >>, ActiveServices}
  /\ selectedServices \in Selections(services)
  /\ loading = FALSE
  /\ formData \in [checkIn : CalcDates, checkOut : CalcDates, guests : {1},
                   specialRequests : {""}]
  /\ pending = {}
  /\ location = BookPage
  /\ notices = {}
  /\ subs = << >>
  /\ calcResult = << >>
  /\ PaymentIdle
  /\ NavbarIdle
  /\ AccountIdle

CalcApply ==
  /\ calcResult = << >>
  /\ calcResult' = << calculateTotal(room, formData, selectedServices, services) >>
  /\ UNCHANGED << session, roomId, dbVars, pageVars, location, subs, payVars, navVars, accountVars >>

CalcToggle(serviceId) ==
  /\ FindService(services, serviceId) # 0
  /\ selectedServices' = ToggleSelection(selectedServices, serviceId)
  /\ calcResult' = << >>
  /\ UNCHANGED << session, roomId, dbVars, user, room, services, loading, formData,
                  pending, location, notices, subs, payVars, navVars, accountVars >>

NextCalc == CalcApply \/ \E serviceId \in ServiceIds : CalcToggle(serviceId)

SpecCalc == InitCalc /\ [][NextCalc]_vars

(* --------------- handleServiceToggle, its calls counted --------------- *)
\* public.additional_services once the receptionist has activated every row
ServicesAllActive ==
  [i \in 1..Len(additional_services) |->
     [additional_services[i] EXCEPT !.active = TRUE]]

\* the form of a signed-in guest, shown with the services the select returned
InitToggle ==
  /\ \E v \in Visits : session = v[1] /\ roomId = v[2] /\ session # NoSession
  /\ bookings = << >>
  /\ booking_services = << >>
  /\ user = session
  /\ room \in {r \in rooms : r.id = roomId}
  /\ services \in {ActiveServices, ServicesAllActive}
  /\ selectedServices = << >>
  /\ loading = FALSE
  /\ formData = InitialFormData
  /\ pending = {}
  /\ location = BookPage
  /\ notices = {}
  /\ subs = << >>
  /\ calcResult = << >>
  /\ PaymentIdle
  /\ NavbarIdle
  /\ AccountIdle

TogglesSoFar(count, ids) ==
  LET RECURSIVE Sum(_)
      Sum(S) == IF S = {} THEN 0
                ELSE LET x == CHOOSE y \in S : TRUE IN count[x] + Sum(S \ {x})
  IN Sum(ids)

\* one click on the checkbox of a listed service, the click recorded
ToggleCounted(serviceId) ==
  /\ FormShown
  /\ FindService(services, serviceId) # 0
  /\ TogglesSoFar(toggleCount, ServiceIds) < MaxToggles
  /\ selectedServices' = ToggleSelection(selectedServices, serviceId)
  /\ toggleCount' = [toggleCount EXCEPT ![serviceId] = @ + 1]
  /\ UNCHANGED << session, roomId, dbVars, user, room, services, loading, formData,
                  pending, location, notices, subs, calcResult, payVars, navVars,
                  authVars, profileVars >>

NextToggle == \E serviceId \in ServiceIds : ToggleCounted(serviceId)

SpecToggle == InitToggle /\ [][NextToggle]_vars

(* ------------- calculateTotal on any text and any price list ---------- *)
\* a value of an input that is not a date (a browser without a date picker
\* shows a text field)
InvalidDateString == "31/12/2025"

CalcTexts == CalcDates \cup {InvalidDateString}

\* public.additional_services with a row priced below zero: price is
\* DECIMAL(10,2) NOT NULL, without a CHECK
ServicesWithRebate ==
  << [id |-> "s1", price |-> 50, active |-> TRUE],
     [id |-> "s4", price |-> -20, active |-> TRUE] >>

InitCalcAny ==
  /\ session = NoSession
  /\ roomId = "r1"
  /\ bookings = << >>
  /\ booking_services = << >>
  /\ user = NullUser
  /\ room \in rooms \cup {NullRoom}
  /\ services \in {<< >>, ActiveServices, ServicesWithRebate}
  /\ selectedServices \in Selections(services)
  /\ loading = FALSE
  /\ formData \in [checkIn : CalcTexts, checkOut : CalcTexts, guests : {1},
                   specialRequests : {""}]
  /\ pending = {}
  /\ location = BookPage
  /\ notices = {}
  /\ subs = << >>
  /\ calcResult = << >>
  /\ PaymentIdle
  /\ NavbarIdle
  /\ AccountIdle

SpecCalcAny == InitCalcAny /\ [][NextCalc]_vars

(* --------------- BookRoom: the submit button pressed again ------------- *)
\* drafts that pass every check of handleSubmit
ValidDrafts ==
  { fd \in [checkIn : {"2025-01-01"}, checkOut : {"2025-01-03"},
            guests : {1, 2}, specialRequests : {"", "cuna"}] : TRUE }

\* the page loaded for a signed-in user, a valid draft typed in
InitTwice ==
  /\ \E v \in Visits : v[1] # NoSession /\ session = v[1] /\ roomId = v[2]
  /\ bookings = << >>
  /\ booking_services = << >>
  /\ user = session
  /\ \E r \in rooms : r.id = roomId /\ room = r
  /\ services = ActiveServices
  /\ selectedServices \in Selections(services)
  /\ loading = FALSE
  /\ formData \in ValidDrafts
  /\ pending = {}
  /\ location = BookPage
  /\ notices = {}
  /\ subs = << >>
  /\ calcResult = << >>
  /\ PaymentIdle
  /\ NavbarIdle
  /\ AccountIdle

NextTwice ==
  \/ handleSubmit(MaxResubmits)
  \/ \E i \in 1..Len(subs) : BookingInsertReturn(i)
  \/ \E i \in 1..Len(subs) : ServicesInsertReturn(i)

SpecTwice == InitTwice /\ [][NextTwice]_vars

NextOverlap == NextTwice \/ OtherGuestBooks

SpecOverlap == InitTwice /\ [][NextOverlap]_vars

(* -------------------------------- Navbar ------------------------------- *)
\* the Navbar mounted, its effect run: getSession() called, listener set
InitNav ==
  /\ session \in {NoSession} \cup UserIds
  /\ roomId = "r1"
  /\ bookings = << >>
  /\ booking_services = << >>
  /\ user = NullUser
  /\ room = NullRoom
  /\ services = << >>
  /\ selectedServices = << >>
  /\ loading = TRUE
  /\ formData = InitialFormData
  /\ pending = {}
  /\ location = [path |-> "/", id |-> 0]
  /\ notices = {}
  /\ subs = << >>
  /\ calcResult = << >>
  /\ PaymentIdle
  /\ navUser = NullUser
  /\ isReceptionist = FALSE
  /\ sessionPending = TRUE
  /\ rolePending = {}
  /\ authEvents = 0
  /\ AccountIdle

\* setUser(session?.user ?? null)
SessionUser(s) == IF s = NoSession THEN NullUser ELSE s

\* the then-callback of getSession()
GetSessionReturn ==
  /\ sessionPending
  /\ sessionPending' = FALSE
  /\ navUser' = SessionUser(session)
  /\ rolePending' = (IF session # NoSession THEN rolePending \cup {session}
                     ELSE rolePending)
  /\ UNCHANGED << session, roomId, dbVars, pageVars, location, subs, calcResult,
                  payVars, accountVars, isReceptionist, authEvents >>

\* the listener of onAuthStateChange called with a session of u: a sign-in,
\* of the same user or of another one
SignIn(u) ==
  /\ authEvents < MaxAuthEvents
  /\ authEvents' = authEvents + 1
  /\ session' = u
  /\ navUser' = SessionUser(u)
  /\ rolePending' = rolePending \cup {u}
  /\ UNCHANGED << roomId, dbVars, pageVars, location, subs, calcResult, payVars, accountVars,
                  isReceptionist, sessionPending >>

\* the listener called without a session: handleLogout's signOut()
SignOut ==
  /\ session # NoSession
  /\ authEvents < MaxAuthEvents
  /\ authEvents' = authEvents + 1
  /\ session' = NoSession
  /\ navUser' = NullUser
  /\ isReceptionist' = FALSE
  /\ UNCHANGED << roomId, dbVars, pageVars, location, subs, calcResult, payVars, accountVars,
                  sessionPending, rolePending >>

\* the rows the query of checkUserRole returns for userId
StaffRolesOf(userId) == user_roles[userId] \cap {"receptionist", "admin"}

\* checkUserRole(userId) resumes after its await, with rows or with an error
RoleQueryReturn(userId) ==
  /\ userId \in rolePending
  /\ rolePending' = rolePending \ {userId}
  /\ \/ isReceptionist' = (IF StaffRolesOf(userId) # {} THEN TRUE ELSE isReceptionist)
     \/ isReceptionist' = isReceptionist
  /\ UNCHANGED << session, roomId, dbVars, pageVars, location, subs, calcResult,
                  payVars, accountVars, navUser, sessionPending, authEvents >>

NextNav ==
  \/ GetSessionReturn
  \/ \E u \in UserIds : SignIn(u)
  \/ SignOut
  \/ \E userId \in UserIds : RoleQueryReturn(userId)

SpecNav == InitNav /\ [][NextNav]_vars

\* {isReceptionist && <Link to="/dashboard">} inside the branch of "user ?"
DashboardShown == navUser # NullUser /\ isReceptionist

(* ------------------------------ Auth page ------------------------------ *)
Digits == {"0", "1", "2", "3", "4", "5", "6", "7", "8", "9"}
Letters == {"a", "b", "e", "p", "A", "n", "L", "i", "m", "x"}

\* z.string().min(n)
StringMin(str, n) == Len(str) >= n

\* z.string().regex(/^\d{n}$/)
RegexDigits(str, n) == Len(str) = n /\ \A i \in 1..Len(str) : str[i] \in Digits

\* z.string().email(): one "@", a local part that neither starts nor ends
\* with a dot, and a domain of dot-separated labels ending in two letters or
\* more
ZodEmail(str) ==
  \E at \in 1..Len(str) :
    /\ str[at] = "@"
    /\ \A i \in 1..Len(str) : str[i] = "@" => i = at
    /\ at > 1 /\ str[1] # "." /\ str[at - 1] # "."
    /\ \A i \in 1..Len(str) : str[i] \in Letters \cup Digits \cup {"@", "."}
    /\ \E dot \in (at + 2)..(Len(str) - 2) :
         /\ str[dot] = "."
         /\ \A i \in (dot + 1)..Len(str) : str[i] \in Letters
         /\ \A i \in (at + 1)..(dot - 1) : str[i] = "." => str[i + 1] # "."
         /\ str[at + 1] # "."

Issue(path, message) == << [path |-> path, message |-> message] >>

\* dni: z.string().length(8)
signUpSchemaDniLength(data) ==
  (IF StringMin(data.fullName, 3) THEN << >>
     ELSE Issue("fullName", "El nombre debe tener al menos 3 caracteres"))
  \o (IF ZodEmail(data.email) THEN << >> ELSE Issue("email", "Email inválido"))
  \o (IF Len(data.dni) = 8 THEN << >>
        ELSE Issue("dni", "El DNI debe tener 8 dígitos"))
  \o (IF RegexDigits(data.phone, 9) THEN << >>
        ELSE Issue("phone", "El teléfono debe tener 9 dígitos"))
  \o (IF StringMin(data.address, 5) THEN << >>
        ELSE Issue("address", "La dirección debe tener al menos 5 caracteres"))
  \o (IF StringMin(data.password, 6) THEN << >>
        ELSE Issue("password", "La contraseña debe tener al menos 6 caracteres"))

\* signUpSchema.parse: the issues of the ZodError, in the order of the keys
signUpSchema(data) ==
  (IF StringMin(data.fullName, 3) THEN << >>
     ELSE Issue("fullName", "El nombre debe tener al menos 3 caracteres"))
  \o (IF ZodEmail(data.email) THEN << >> ELSE Issue("email", "Email inválido"))
  \o (IF RegexDigits(data.dni, 8) THEN << >>
        ELSE Issue("dni", "El DNI debe tener 8 dígitos"))
  \o (IF RegexDigits(data.phone, 9) THEN << >>
        ELSE Issue("phone", "El teléfono debe tener 9 dígitos"))
  \o (IF StringMin(data.address, 5) THEN << >>
        ELSE Issue("address", "La dirección debe tener al menos 5 caracteres"))
  \o (IF StringMin(data.password, 6) THEN << >>
        ELSE Issue("password", "La contraseña debe tener al menos 6 caracteres"))

\* signInSchema.parse
signInSchema(data) ==
  (IF ZodEmail(data.email) THEN << >> ELSE Issue("email", "Email inválido"))
  \o (IF StringMin(data.password, 1) THEN << >>
        ELSE Issue("password", "Ingrese su contraseña"))

\* values typed into the two forms
NameInputs == { << "A", "n" >>, << "A", "n", "a" >> }
EmailInputs == { << "a", "@", "b", ".", "p", "e" >>, << "a", "@", "b" >> }
DniInputs ==
  { << "4", "5", "1", "2", "3", "6", "7", "8" >>,
    << "4", "5", "1", "2", "3", "6", "7" >>,
    << "4", "5", "1", "2", "3", "6", "7", "x" >> }
PhoneInputs ==
  { << "9", "8", "7", "6", "5", "4", "3", "2", "1" >>,
    << "9", "8", "7", "6", "5", "4", "3", "2" >> }
AddressInputs == { << "L", "i", "m", "a", "1" >>, << "L", "i", "m", "a" >> }
PasswordInputs ==
  { << "a", "b", "e", "p", "1", "2" >>, << "a", "b", "e", "p", "1" >> }

AuthPage == [path |-> "/auth", id |-> 0]

AuthShown == location = AuthPage

\* the Auth page mounted without a session, the two forms filled in
InitAuth ==
  /\ session = NoSession
  /\ roomId = "r1"
  /\ bookings = << >>
  /\ booking_services = << >>
  /\ user = NullUser
  /\ room = NullRoom
  /\ services = << >>
  /\ selectedServices = << >>
  /\ loading = TRUE
  /\ formData = InitialFormData
  /\ pending = {}
  /\ location = AuthPage
  /\ notices = {}
  /\ subs = << >>
  /\ calcResult = << >>
  /\ PaymentIdle
  /\ NavbarIdle
  /\ ProfileIdle
  /\ TogglesIdle
  /\ authLoading = FALSE
  /\ signUpData \in [fullName : NameInputs, email : EmailInputs, dni : DniInputs,
                     phone : PhoneInputs, address : AddressInputs,
                     password : PasswordInputs]
  /\ signInData \in [email : EmailInputs, password : PasswordInputs \cup {EmptyText}]
  /\ authCalls = << >>
  /\ auths = << >>

authRest == << roomId, dbVars, pageVars, subs, calcResult, payVars, navVars,
               profileVars, toggleCount, signUpData, signInData >>

\* handleSignUp up to its await; the submit button is disabled while loading
handleSignUp ==
  /\ AuthShown
  /\ ~authLoading
  /\ Len(auths) < MaxAuthCalls
  /\ LET issues == signUpSchema(signUpData) IN
       IF issues # << >>
         THEN /\ auths' = Append(auths, [op |-> "signUp", pc |-> "rejected",
                            toasts |-> << ErrorToast(issues[1].message) >>])
              /\ authLoading' = FALSE
              /\ authCalls' = authCalls
         ELSE /\ auths' = Append(auths, [op |-> "signUp", pc |-> "remote",
                            toasts |-> << >>])
              /\ authLoading' = TRUE
              /\ authCalls' = Append(authCalls,
                   [op |-> "signUp", email |-> signUpData.email,
                    password |-> signUpData.password])
  /\ UNCHANGED << session, location, authRest >>

\* handleSignIn up to its await
handleSignIn ==
  /\ AuthShown
  /\ ~authLoading
  /\ Len(auths) < MaxAuthCalls
  /\ LET issues == signInSchema(signInData) IN
       IF issues # << >>
         THEN /\ auths' = Append(auths, [op |-> "signIn", pc |-> "rejected",
                            toasts |-> << ErrorToast(issues[1].message) >>])
              /\ authLoading' = FALSE
              /\ authCalls' = authCalls
         ELSE /\ auths' = Append(auths, [op |-> "signIn", pc |-> "remote",
                            toasts |-> << >>])
              /\ authLoading' = TRUE
              /\ authCalls' = Append(authCalls,
                   [op |-> "signIn", email |-> signInData.email,
                    password |-> signInData.password])
  /\ UNCHANGED << session, location, authRest >>

\* error.message of a failed auth call
AuthErrorMessages == {"", "User already registered", "Invalid login credentials"}

\* the toast of the catch block of handleSignUp
SignUpErrorToast(msg) ==
  ErrorToast(IF msg = "User already registered"
               THEN "Este email ya está registrado. Intenta iniciar sesión."
             ELSE IF msg # "" THEN msg ELSE "Error al registrarse")

\* the toast of the catch block of handleSignIn
SignInErrorToast(msg) ==
  ErrorToast(IF msg = "Invalid login credentials"
               THEN "Email o contraseña incorrectos"
             ELSE IF msg # "" THEN msg ELSE "Error al iniciar sesión")

\* supabase.auth.signUp or signInWithPassword returns: an error, a user, or
\* neither
AuthReturn(i) ==
  /\ auths[i].pc = "remote"
  /\ authLoading' = FALSE
  /\ \/ /\ \E msg \in AuthErrorMessages :
             auths' = [auths EXCEPT ![i].pc = "failed",
                         ![i].toasts = << IF auths[i].op = "signUp"
                                            THEN SignUpErrorToast(msg)
                                            ELSE SignInErrorToast(msg) >>]
        /\ UNCHANGED << session, location >>
     \/ /\ \E u \in UserIds : session' = u
        /\ auths' = [auths EXCEPT ![i].pc = "done",
                       ![i].toasts = << SuccessToast(
                          IF auths[i].op = "signUp"
                            THEN "¡Registro exitoso! Bienvenido a Hotel Paraíso"
                            ELSE "¡Bienvenido de vuelta!") >>]
        /\ location' = [path |-> "/", id |-> 0]
     \/ /\ auths' = [auths EXCEPT ![i].pc = "done"]
        /\ UNCHANGED << session, location >>
  /\ UNCHANGED << authCalls, authRest >>

NextAuth ==
  \/ handleSignUp
  \/ handleSignIn
  \/ \E i \in 1..Len(auths) : AuthReturn(i)

SpecAuth == InitAuth /\ [][NextAuth]_vars

(* ------------------------------ Profile page -------------------------- *)
ProfilePage == [path |-> "/profile", id |-> 0]

\* the form is rendered: neither the loading skeleton nor the null page
ProfileShown == location = ProfilePage /\ ~profLoading /\ profile # NullProfile

\* the editable columns and the values typed into their inputs
ProfileInputs ==
  [full_name |-> {"Ana", "Ana Rojas"}, phone |-> {"", "987654321"},
   address |-> {"", "Av. Lima 123"}, dni |-> {"", "12345678"}]

\* "Users can view their own profile"
ProfilesSelectPolicy(uid, row) == uid = row.id

\* "Users can update their own profile"
ProfilesUpdatePolicy(uid, row) == uid = row.id

InitProfile ==
  /\ session \in {NoSession} \cup UserIds
  /\ roomId = "r1"
  /\ bookings = << >>
  /\ booking_services = << >>
  /\ user = NullUser
  /\ room = NullRoom
  /\ services = << >>
  /\ selectedServices = << >>
  /\ loading = TRUE
  /\ formData = InitialFormData
  /\ pending = {}
  /\ location = ProfilePage
  /\ notices = {}
  /\ subs = << >>
  /\ calcResult = << >>
  /\ PaymentIdle
  /\ NavbarIdle
  /\ AuthIdle
  /\ TogglesIdle
  /\ profiles = ProfileRows
  /\ profile = NullProfile
  /\ profUser = NullUser
  /\ profLoading = TRUE
  /\ saving = FALSE
  /\ profPending = {"checkAuth"}
  /\ saves = << >>

profRest == << session, roomId, dbVars, user, room, services, selectedServices,
               loading, formData, pending, subs, calcResult, payVars, navVars,
               authVars, toggleCount >>

\* Profile's checkAuth, up to its call of fetchProfile
ProfileCheckAuth ==
  /\ "checkAuth" \in profPending
  /\ IF session = NoSession
     THEN /\ notices' = notices \cup {"Debes iniciar sesión"}
          /\ location' = [path |-> "/auth", id |-> 0]
          /\ profPending' = {}
          /\ profUser' = profUser
     ELSE /\ profUser' = session
          /\ profPending' = {"fetchProfile"}
          /\ UNCHANGED << notices, location >>
  /\ UNCHANGED << profRest, profiles, profile, profLoading, saving, saves >>

\* the select of the row with id = userId returns
fetchProfile ==
  /\ "fetchProfile" \in profPending
  /\ profPending' = {}
  /\ \/ /\ ProfilesSelectPolicy(session, profiles[profUser])
        /\ profile' = profiles[profUser]
        /\ notices' = notices
     \/ /\ notices' = notices \cup {"Error al cargar el perfil"}
        /\ profile' = profile
  /\ profLoading' = FALSE
  /\ UNCHANGED << profRest, location, profiles, profUser, saving, saves >>

\* onChange of one of the four inputs that are not disabled
setProfile(field, v) ==
  /\ ProfileShown
  /\ profile' = [profile EXCEPT ![field] = v]
  /\ UNCHANGED << profRest, location, notices, profiles, profUser, profLoading,
                  saving, profPending, saves >>

\* the object given to supabase.from('profiles').update
ProfilePayload(p) ==
  [full_name |-> p.full_name, phone |-> p.phone, address |-> p.address,
   dni |-> p.dni]

\* handleSave up to its await; the submit button is disabled while saving
handleSave ==
  /\ ProfileShown
  /\ ~saving
  /\ profUser # NullUser
  /\ Len(saves) < MaxSaves
  /\ saving' = TRUE
  /\ saves' = Append(saves, [pc |-> "update", id |-> profUser,
                             payload |-> ProfilePayload(profile),
                             toasts |-> << >>])
  /\ UNCHANGED << profRest, location, notices, profiles, profile, profUser,
                  profLoading, profPending >>

\* update(payload).eq('id', id) as the store runs it for uid
UpdateProfile(rows, uid, id, payload) ==
  [u \in DOMAIN rows |->
     IF u = id /\ ProfilesUpdatePolicy(uid, rows[u])
       THEN [f \in DOMAIN rows[u] |->
               IF f \in DOMAIN payload THEN payload[f] ELSE rows[u][f]]
       ELSE rows[u]]

\* setSaving(false) as the last statement of the try block, no finally
SavingAfterSaveInTry(error) == IF error THEN saving ELSE FALSE

\* finally: setSaving(false), whether the update returned an error or not
SavingAfterSave(error) == FALSE

\* the update returns: lines 74-81
SaveReturn(i) ==
  /\ saves[i].pc = "update"
  /\ \/ /\ profiles' = UpdateProfile(profiles, session, saves[i].id, saves[i].payload)
        /\ saves' = [saves EXCEPT
              ![i].pc = "done",
              ![i].toasts = Append(@, SuccessToast("Perfil actualizado exitosamente"))]
        /\ saving' = SavingAfterSave(FALSE)
     \/ /\ \E msg \in RemoteMessages :
             saves' = [saves EXCEPT
               ![i].pc = "failed",
               ![i].toasts = Append(@, ErrorToast(IF msg # "" THEN msg
                                        ELSE "Error al actualizar el perfil"))]
        /\ saving' = SavingAfterSave(TRUE)
        /\ profiles' = profiles
  /\ UNCHANGED << profRest, location, notices, profile, profUser, profLoading,
                  profPending >>

NextProfile ==
  \/ ProfileCheckAuth
  \/ fetchProfile
  \/ \E field \in DOMAIN ProfileInputs : \E v \in ProfileInputs[field] :
       setProfile(field, v)
  \/ handleSave
  \/ \E i \in 1..Len(saves) : SaveReturn(i)

SpecProfile == InitProfile /\ [][NextProfile]_vars

(* ------------------------ what the claims refer to --------------------- *)
\* calendar day of a date string, counted from 2025-01-01
DayNumber(str) == CHOOSE i \in 1..Len(DateStrings) : DateStrings[i] = str

Nights(checkIn, checkOut) == DayNumber(checkOut) - DayNumber(checkIn)

PriceOfService(serviceId) ==
  (CHOOSE s \in Range(additional_services) : s.id = serviceId).price

PriceOfRoom(id) == (CHOOSE r \in rooms : r.id = id).price_per_night

RECURSIVE SumPrices(_)
SumPrices(ids) ==
  IF ids = {} THEN 0
  ELSE LET x == CHOOSE y \in ids : TRUE
       IN PriceOfService(x) + SumPrices(ids \ {x})

\* the booking_services rows of one booking
LinksOf(id) ==
  {k \in 1..Len(booking_services) : booking_services[k].booking_id = id}

LinkedServices(id) == {booking_services[k].service_id : k \in LinksOf(id)}

(* ------------------------------- claims -------------------------------- *)

\* C1: for a loaded room and two present dates, calculateTotal returns
\* nights x price_per_night plus the price of every selected service, each
\* selected service counted once.
C1_TotalIsNightsPlusServices ==
  (calcResult # << >> /\ room # NullRoom
     /\ formData.checkIn # "" /\ formData.checkOut # "")
  => calcResult[1]
       = Nights(formData.checkIn, formData.checkOut) * room.price_per_night
         + SumPrices(Range(selectedServices))

\* 2025-01-01 to 2025-01-03 at rate 100 with one service priced 50 gives 250
C1_Witness ==
  /\ calcResult = << 250 >>
  /\ room.price_per_night = 100
  /\ formData.checkIn = "2025-01-01" /\ formData.checkOut = "2025-01-03"
  /\ Len(selectedServices) = 1 /\ PriceOfService(selectedServices[1]) = 50

\* the invocation appended by a handleSubmit step
NewSub == subs'[Len(subs')]

Submitted == Len(subs') = Len(subs) + 1

NoWrite == bookings' = bookings /\ booking_services' = booking_services

\* an invocation that was rejected does nothing further
RejectedIsFinal ==
  \A i \in 1..Len(subs) : subs[i].pc = "rejected" => subs'[i] = subs[i]

\* C2: every Booking row of a submission that has returned has check_out
\* after check_in and a total of nights x the room's price plus the prices of
\* exactly the services for which booking_services rows were written for it.
C2_TotalMatchesWrittenLinks ==
  \A i \in 1..Len(subs) :
    (subs[i].pc \in {"done", "servicesFailed"}) =>
      LET b == bookings[subs[i].booking_id] IN
        /\ DayNumber(b.check_out) > DayNumber(b.check_in)
        /\ b.total_amount
             = Nights(b.check_in, b.check_out) * PriceOfRoom(b.room_id)
               + SumPrices(LinkedServices(subs[i].booking_id))

\* C3: a submission whose check-out is not after its check-in is rejected in
\* the step that submits it: nothing is written, no request is left in flight,
\* nothing navigates, and the rejected invocation never acts again.
C3_DateOrderRejectedBeforeWrite ==
  [][ /\ (Submitted /\ formData.checkIn # "" /\ formData.checkOut # ""
            /\ DayNumber(formData.checkOut) <= DayNumber(formData.checkIn))
         => (NoWrite /\ location' = location /\ NewSub.pc = "rejected"
               /\ Len(NewSub.toasts) = 1 /\ NewSub.toasts[1].kind = "error")
      /\ RejectedIsFinal ]_vars

C3_Witness ==
  \E i \in 1..Len(subs) :
    /\ subs[i].pc = "rejected"
    /\ subs[i].toasts[1].message
         = "La fecha de salida debe ser posterior a la fecha de entrada"
    /\ formData.checkIn = formData.checkOut /\ formData.checkIn # ""

GuestMessage == "Debe haber al menos 1 huésped"

\* C4 as claimed: a submission with a guest count below 1, made with the
\* session user loaded, is rejected with the error of the guest-count field
\* and writes nothing.
C4_GuestErrorAlways ==
  [][ (Submitted /\ user # NullUser /\ formData.guests < 1)
        => (NoWrite /\ NewSub.pc = "rejected"
              /\ NewSub.toasts = << ErrorToast(GuestMessage) >>) ]_vars

\* C4 amended: a submission with a guest count below 1 is rejected with one
\* error and writes nothing, then or later; the error is the one of the
\* guest-count field when the session user is loaded and both dates are
\* present, the session error when the user is not loaded, and otherwise the
\* message of the first missing date.
C4_GuestCountRejected ==
  [][ /\ (Submitted /\ formData.guests < 1)
         => /\ NoWrite /\ location' = location /\ NewSub.pc = "rejected"
            /\ Len(NewSub.toasts) = 1 /\ NewSub.toasts[1].kind = "error"
            /\ NewSub.toasts[1].message =
                 (IF user = NullUser THEN "Error en la sesión"
                  ELSE IF formData.checkIn = "" THEN "Selecciona fecha de entrada"
                  ELSE IF formData.checkOut = "" THEN "Selecciona fecha de salida"
                  ELSE GuestMessage)
      /\ RejectedIsFinal ]_vars

C4_Witness ==
  \E i \in 1..Len(subs) :
    /\ subs[i].pc = "rejected"
    /\ subs[i].toasts = << ErrorToast(GuestMessage) >>
    /\ formData.guests = 0
    /\ bookings = << >> /\ booking_services = << >>

\* C5: a submission that completed with k selected services has created
\* exactly one Booking row, its own, and exactly k booking_services rows for
\* it: one per selected service, each with quantity 1.
C5_OneBookingAndKLinks ==
  /\ \A i \in 1..Len(subs) :
       subs[i].pc = "done" =>
         LET id == subs[i].booking_id IN
           /\ id \in 1..Len(bookings)
           /\ \A j \in 1..Len(subs) : j # i => subs[j].booking_id # id
           /\ Cardinality(LinksOf(id)) = Len(subs[i].sel)
           /\ \A s \in Range(subs[i].sel) :
                Cardinality({k \in LinksOf(id) :
                               booking_services[k].service_id = s}) = 1
           /\ \A k \in LinksOf(id) :
                /\ booking_services[k].quantity = 1
                /\ booking_services[k].service_id \in Range(subs[i].sel)
  /\ Len(bookings) = Cardinality({i \in 1..Len(subs) : subs[i].booking_id # 0})

C5_Witness ==
  \E i \in 1..Len(subs) :
    /\ subs[i].pc = "done"
    /\ Len(subs[i].sel) = 2
    /\ Cardinality(LinksOf(subs[i].booking_id)) = 2

\* C7: every Booking row handleSubmit creates has status pendiente.
C7_CreatedPending ==
  \A b \in 1..Len(bookings) : bookings[b].status = "pendiente"

C7_Witness ==
  \E b \in 1..Len(bookings) :
    /\ bookings[b].status = "pendiente"
    /\ bookings[b].guests = 2
    /\ bookings[b].total_amount > Nights(bookings[b].check_in, bookings[b].check_out)
                                    * PriceOfRoom(bookings[b].room_id)

\* C8: when the bookings insert fails the invocation raises exactly one
\* error toast and ends: it writes nothing, issues no booking_services
\* insert and no second bookings insert, and does not navigate.
C8_BookingFailureAborts ==
  [][ \A i \in 1..Len(subs) :
        /\ (subs[i].pc = "insertBooking" /\ subs'[i].pc # "insertBooking"
              /\ bookings' = bookings)
           => /\ booking_services' = booking_services
              /\ location' = location
              /\ subs'[i].pc = "bookingFailed"
              /\ subs'[i].booking_id = 0
              /\ Len(subs'[i].toasts) = 1
              /\ subs'[i].toasts[1].kind = "error"
        /\ subs[i].pc = "bookingFailed" => subs'[i] = subs[i] ]_vars

C8_Witness ==
  \E i \in 1..Len(subs) :
    /\ subs[i].pc = "bookingFailed"
    /\ Len(subs[i].toasts) = 1
    /\ bookings = << >>

\* C9: when the booking_services insert fails after the bookings insert
\* succeeded, the Booking row stays as it is, pendiente and with no
\* booking_services row, nothing is deleted or updated, and nothing navigates.
C9_OrphanBookingRemains ==
  [][ \A i \in 1..Len(subs) :
        /\ (subs[i].pc = "insertServices" /\ subs'[i].pc # "insertServices"
              /\ booking_services' = booking_services)
           => /\ bookings' = bookings
              /\ location' = location
              /\ subs'[i].pc = "servicesFailed"
              /\ subs'[i].toasts[Len(subs'[i].toasts)].kind = "error"
        /\ subs[i].pc = "servicesFailed"
           => /\ subs'[i] = subs[i]
              /\ subs[i].booking_id \in 1..Len(bookings')
              /\ bookings'[subs[i].booking_id] = bookings[subs[i].booking_id]
              /\ bookings'[subs[i].booking_id].status = "pendiente"
              /\ \A k \in 1..Len(booking_services') :
                   booking_services'[k].booking_id # subs[i].booking_id
              /\ location' # [path |-> "/payment", id |-> subs[i].booking_id] ]_vars

C9_Witness ==
  \E i \in 1..Len(subs) :
    /\ subs[i].pc = "servicesFailed"
    /\ bookings[subs[i].booking_id].status = "pendiente"
    /\ LinksOf(subs[i].booking_id) = {}

\* the invocation has issued its booking_services insert
LinksIssued(sub) ==
  \/ sub.pc \in {"insertServices", "servicesFailed"}
  \/ sub.pc = "done" /\ sub.sel # << >>

\* C10: an invocation issues its booking_services insert only once its
\* bookings insert has returned a row, and booking_services rows exist only
\* for Booking rows that exist.
C10_LinksAfterBooking ==
  /\ \A i \in 1..Len(subs) :
       /\ LinksIssued(subs[i]) => subs[i].booking_id \in 1..Len(bookings)
       /\ subs[i].pc \in {"insertBooking", "bookingFailed", "rejected"}
          => subs[i].booking_id = 0 /\ LinksOf(subs[i].booking_id) = {}
  /\ \A k \in 1..Len(booking_services) :
       booking_services[k].booking_id \in 1..Len(bookings)

\* the two writes are not one: the Booking row is there, its links are not
C10_Witness ==
  \E i \in 1..Len(subs) :
    /\ subs[i].pc = "insertServices"
    /\ subs[i].booking_id \in 1..Len(bookings)
    /\ Len(subs[i].sel) > 0
    /\ LinksOf(subs[i].booking_id) = {}

\* C6: once handlePayment has ended with its success outcome for a booking
\* paid by its owner, a user without a staff role, the stored status of the
\* booking is confirmada.
C6_PaidBookingConfirmed ==
  \A i \in 1..Len(pays) :
    LET id == pays[i].row.booking_id IN
      (/\ pays[i].pc = "done"
       /\ pays[i].toasts = << SuccessToast("¡Pago procesado exitosamente!") >>
       /\ pays[i].payment_id \in 1..Len(payments)
       /\ bookings[id].user_id = pays[i].row.user_id
       /\ ~IsStaff(pays[i].row.user_id))
      => bookings[id].status = "confirmada"

\* C11: navigate has been given /payment/<id> only for the id of a Booking row
\* that an invocation of this page created and whose booking_services rows,
\* one per selected service, were all written before.
C11_HandOffAfterWrites ==
  /\ location.path = "/payment"
     => \E i \in 1..Len(subs) :
          /\ subs[i].pc = "done"
          /\ subs[i].booking_id = location.id
          /\ location.id \in 1..Len(bookings)
          /\ bookings[location.id].user_id = user
          /\ LinkedServices(location.id) = Range(subs[i].sel)
          /\ Cardinality(LinksOf(location.id)) = Len(subs[i].sel)
  /\ \A i \in 1..Len(subs) :
       subs[i].pc # "done" => location # [path |-> "/payment", id |-> subs[i].booking_id]

C11_Witness ==
  /\ location.path = "/payment"
  /\ Cardinality(LinksOf(location.id)) = 2
  /\ bookings[location.id].status = "pendiente"

\* the invocations whose bookings insert has succeeded
Inserted == { i \in 1..Len(subs) : subs[i].booking_id # 0 }

\* C12: nothing de-duplicates submissions of one valid draft: no invocation is
\* turned away, a pending bookings insert is admitted whatever rows the table
\* holds, and any two invocations whose insert succeeded have created two
\* distinct Booking rows with the same user, room, dates and total.
C12_NoDeduplication ==
  /\ \A i \in 1..Len(subs) :
       /\ subs[i].pc # "rejected"
       /\ subs[i].pc = "insertBooking" => BookingsInsertPolicy(session, subs[i].row)
  /\ Len(bookings) = Cardinality(Inserted)
  /\ \A i, j \in Inserted :
       /\ subs[i].booking_id \in 1..Len(bookings)
       /\ i # j => subs[i].booking_id # subs[j].booking_id
       /\ LET a == bookings[subs[i].booking_id]
              b == bookings[subs[j].booking_id]
          IN /\ a.user_id = b.user_id /\ a.user_id = user
             /\ a.room_id = b.room_id /\ a.room_id = room.id
             /\ a.check_in = b.check_in /\ a.check_in = formData.checkIn
             /\ a.check_out = b.check_out /\ a.check_out = formData.checkOut
             /\ a.total_amount = b.total_amount
             /\ a.total_amount =
                  calculateTotal(room, formData, selectedServices, services)

\* the second invocation started while the first awaited its insert, and its
\* row was stored first
C12_Witness ==
  /\ Len(subs) >= 2
  /\ subs[1].booking_id = 2
  /\ subs[2].booking_id = 1
  /\ bookings[1] = bookings[2]

\* C13: whatever the rate, the two dates (check-out before check-in included)
\* and the selection, the value calculateTotal returns is not negative.
C13_TotalNonNegative ==
  calcResult # << >> => calcResult[1] >= 0

\* new Date(str) is a valid date
IsDate(str) == str \in Range(DateStrings)

\* C14: when the room is not loaded, a date is absent or a date string is
\* not a valid date, calculateTotal returns 0.
C14_ZeroWhenUnusable ==
  (calcResult # << >>
     /\ (\/ room = NullRoom
         \/ formData.checkIn = "" \/ formData.checkOut = ""
         \/ ~IsDate(formData.checkIn) \/ ~IsDate(formData.checkOut)))
  => calcResult[1] = 0

DateOrderMessage == "La fecha de salida debe ser posterior a la fecha de entrada"

\* the draft breaks at least one of the structural rules
DraftViolates ==
  \/ formData.checkIn = "" \/ formData.checkOut = ""
  \/ formData.guests < 1
  \/ DateOrderRejected(formData.checkIn, formData.checkOut)

\* C15 as claimed: a submission of a draft with structural violations, made
\* with the session user loaded, reports exactly one error, the one of the
\* first rule broken in the order dates present, check-out after check-in,
\* guest count at least 1.
C15_FirstOfDatesOrderGuests ==
  [][ (Submitted /\ user # NullUser /\ DraftViolates)
        => NewSub.toasts = << ErrorToast(
             IF formData.checkIn = "" THEN "Selecciona fecha de entrada"
             ELSE IF formData.checkOut = "" THEN "Selecciona fecha de salida"
             ELSE IF DateOrderRejected(formData.checkIn, formData.checkOut)
               THEN DateOrderMessage
             ELSE GuestMessage) >> ]_vars

\* C15 amended: such a submission reports exactly one error, the one of the
\* first rule broken in the order check-in present, check-out present, guest
\* count at least 1, check-out after check-in; and a submission made without
\* the session user loaded reports the session error whatever the draft.
C15_FirstOfDatesGuestsOrder ==
  [][ /\ (Submitted /\ user # NullUser /\ DraftViolates)
         => /\ NewSub.pc = "rejected"
            /\ NewSub.toasts = << ErrorToast(
                 IF formData.checkIn = "" THEN "Selecciona fecha de entrada"
                 ELSE IF formData.checkOut = "" THEN "Selecciona fecha de salida"
                 ELSE IF formData.guests < 1 THEN GuestMessage
                 ELSE DateOrderMessage) >>
      /\ (Submitted /\ user = NullUser)
         => NewSub.toasts = << ErrorToast("Error en la sesión") >> ]_vars

\* check-out not after check-in and no guest: the guest-count error is shown
C15_Witness ==
  \E i \in 1..Len(subs) :
    /\ subs[i].pc = "rejected"
    /\ subs[i].toasts = << ErrorToast(GuestMessage) >>
    /\ user # NullUser
    /\ formData.guests = 0
    /\ formData.checkIn # "" /\ formData.checkOut # ""
    /\ DateOrderRejected(formData.checkIn, formData.checkOut)

\* the room is loaded, both dates are valid, and neither the night count nor
\* the nightly rate is negative
RoomPartDefined ==
  /\ calcResult # << >>
  /\ room # NullRoom
  /\ IsDate(formData.checkIn) /\ IsDate(formData.checkOut)
  /\ Nights(formData.checkIn, formData.checkOut) >= 0
  /\ room.price_per_night >= 0

\* prices of the loaded services that are selected
SelectedPrices ==
  { services[k].price :
      k \in { FindService(services, selectedServices[j]) :
                j \in 1..Len(selectedServices) } \ {0} }

\* C16 as claimed: for a rate r >= 0, a night count n >= 0 and any selection
\* of services loaded from the service table, the total is at least n x r.
C16_TotalAtLeastRoomPart ==
  RoomPartDefined
  => calcResult[1]
       >= Nights(formData.checkIn, formData.checkOut) * room.price_per_night

\* C16 amended: for a rate r >= 0, a night count n >= 0 and a selection of
\* loaded services none of which is priced below zero, the total is at
\* least n x r.
C16_TotalAtLeastRoomPartPricedServices ==
  (RoomPartDefined /\ \A price \in SelectedPrices : price >= 0)
  => calcResult[1]
       >= Nights(formData.checkIn, formData.checkOut) * room.price_per_night

\* two nights at 100 with the service priced 50 selected from a table that
\* also holds a row priced below zero
C16_Witness ==
  /\ RoomPartDefined
  /\ services = ServicesWithRebate
  /\ selectedServices = << "s1" >>
  /\ Nights(formData.checkIn, formData.checkOut) = 2
  /\ room.price_per_night = 100
  /\ calcResult = << 250 >>

\* C17: with the room loaded and the same day as check-in and check-out, the
\* night count is 0, the room contributes nothing and calculateTotal returns
\* the sum of the prices of the selected services.
C17_SameDayIsServicesOnly ==
  (calcResult # << >> /\ room # NullRoom
     /\ formData.checkIn # "" /\ formData.checkOut = formData.checkIn)
  => /\ MathCeilDiv(NumMinus(DateGetTime(formData.checkOut),
                             DateGetTime(formData.checkIn)), MsPerDay) = 0
     /\ calcResult[1] = SumPrices(Range(selectedServices))

\* 2025-01-02 to 2025-01-02 at rate 280 with both services gives 85
C17_Witness ==
  /\ calcResult = << 85 >>
  /\ room.price_per_night = 280
  /\ formData.checkIn = "2025-01-02" /\ formData.checkOut = "2025-01-02"
  /\ Range(selectedServices) = {"s1", "s2"}

\* the step ends an invocation in a rejection or in a remote failure
SubmissionFails ==
  \E i \in 1..Len(subs') :
    /\ subs'[i].pc \in {"rejected", "bookingFailed", "servicesFailed"}
    /\ i <= Len(subs) => subs[i].pc # subs'[i].pc

\* C18: a submission that is rejected by validation or fails on a remote
\* error leaves the draft as it was (dates, guests, special requests,
\* selected services), raises one error, and leaves the form on the page, so
\* that a further submit is accepted.
C18_FailureKeepsDraft ==
  [][ SubmissionFails
        => /\ formData' = formData
           /\ selectedServices' = selectedServices
           /\ location' = location
           /\ FormShown => FormShown'
           /\ \A i \in 1..Len(subs') :
                (i > Len(subs) \/ subs[i].pc # subs'[i].pc)
                => /\ subs'[i].toasts # << >>
                   /\ subs'[i].toasts[Len(subs'[i].toasts)].kind = "error" ]_vars

\* the booking_services insert failed; the draft and the form are still there
C18_Witness ==
  \E i \in 1..Len(subs) :
    /\ subs[i].pc = "servicesFailed"
    /\ FormShown
    /\ formData.checkIn = "2025-01-01" /\ formData.checkOut = "2025-01-03"
    /\ formData.guests = 1
    /\ Len(selectedServices) = 2

\* C19: handleSubmit called without the session user or the room loaded
\* reports the session error and writes nothing; an invocation that goes on
\* to the insert carries the id of the session user as user_id and the id of
\* the loaded room as room_id, and so does every Booking row stored; only
\* such an invocation writes.
C19_WritesNeedUserAndRoom ==
  [][ /\ (Submitted /\ (user = NullUser \/ room = NullRoom))
         => NewSub = Rejected("Error en la sesión") /\ NoWrite
      /\ (Submitted /\ NewSub.pc # "rejected")
         => /\ user # NullUser /\ user = session
            /\ room # NullRoom /\ room.id = roomId
            /\ NewSub.row.user_id = user
            /\ NewSub.row.room_id = room.id
      /\ ~NoWrite
         => \E i \in 1..Len(subs) :
              /\ subs[i].pc \in {"insertBooking", "insertServices"}
              /\ subs[i].row.user_id = session
      /\ \A b \in 1..Len(bookings') :
           /\ bookings'[b].user_id = session'
           /\ bookings'[b].room_id = roomId' ]_vars

\* submit pressed before checkAuth has returned: the session error, no row
C19_Witness ==
  /\ "checkAuth" \in pending
  /\ session # NoSession
  /\ user = NullUser
  /\ Len(subs) = 1
  /\ subs[1] = Rejected("Error en la sesión")
  /\ bookings = << >> /\ booking_services = << >>

\* C20: whatever the order of auth-state change events and of the responses
\* of the role queries, the Navbar shows the Dashboard link only while the
\* user now signed in holds the receptionist or the admin role.
C20_DashboardOnlyForStaff ==
  DashboardShown => (navUser = session /\ IsStaff(navUser))

PaymentSuccessToast == SuccessToast("¡Pago procesado exitosamente!")

\* the invocation has called the generate-receipt function
ReceiptInvoked(pay) == pay.pc \in {"invokeReceipt", "done"}

\* C21: generate-receipt is invoked only by an invocation whose payments
\* insert and whose bookings update have both returned without error, with
\* the id of the payment row that invocation inserted; and when the function
\* returns, with an error or without, the invocation reports success and
\* navigates to the bookings list.
C21_ReceiptAfterBothWrites ==
  [][ /\ Len(receipts') = Cardinality({ i \in 1..Len(pays') : ReceiptInvoked(pays'[i]) })
      /\ \A i \in 1..Len(pays') :
           /\ ReceiptInvoked(pays'[i])
              => /\ pays'[i].payment_id \in 1..Len(payments')
                 /\ payments'[pays'[i].payment_id] = pays'[i].row
                 /\ \E k \in 1..Len(receipts') :
                      receipts'[k] = [paymentId |-> pays'[i].payment_id]
           /\ ~ReceiptInvoked(pays'[i])
              => \A k \in 1..Len(receipts') :
                   receipts'[k].paymentId # pays'[i].payment_id
      /\ \A i \in 1..Len(pays) :
           (pays[i].pc = "invokeReceipt" /\ pays'[i] # pays[i])
           => /\ pays'[i].pc = "done"
              /\ pays'[i].toasts = << PaymentSuccessToast >>
              /\ location' = [path |-> "/bookings", id |-> 0]
              /\ receipts' = receipts
      /\ \A i \in 1..Len(pays) :
           (pays[i].pc = "updateBooking" /\ pays'[i].pc = "invokeReceipt")
           => receipts' = Append(receipts, [paymentId |-> pays[i].payment_id]) ]_vars

\* the function returned an error and the payment was reported as successful
C21_Witness ==
  \E i \in 1..Len(pays) :
    /\ pays[i].pc = "done"
    /\ pays[i].functionError
    /\ pays[i].toasts = << PaymentSuccessToast >>
    /\ receipts = << [paymentId |-> pays[i].payment_id] >>
    /\ location = [path |-> "/bookings", id |-> 0]

\* the text is exactly n decimal digits
ExactlyDigits(str, n) ==
  /\ Len(str) = n
  /\ {str[i] : i \in 1..Len(str)} \subseteq Digits

\* message of the first sign-up field that fails client validation, "" if none
SignUpFirstError ==
  IF Len(signUpData.fullName) < 3 THEN "El nombre debe tener al menos 3 caracteres"
  ELSE IF ~ZodEmail(signUpData.email) THEN "Email inválido"
  ELSE IF ~ExactlyDigits(signUpData.dni, 8) THEN "El DNI debe tener 8 dígitos"
  ELSE IF ~ExactlyDigits(signUpData.phone, 9) THEN "El teléfono debe tener 9 dígitos"
  ELSE IF Len(signUpData.address) < 5
    THEN "La dirección debe tener al menos 5 caracteres"
  ELSE IF Len(signUpData.password) < 6
    THEN "La contraseña debe tener al menos 6 caracteres"
  ELSE ""

\* the same for the sign-in form
SignInFirstError ==
  IF ~ZodEmail(signInData.email) THEN "Email inválido"
  ELSE IF signInData.password = EmptyText THEN "Ingrese su contraseña"
  ELSE ""

FirstErrorOf(op) == IF op = "signUp" THEN SignUpFirstError ELSE SignInFirstError

\* C22: with a sign-up field failing client validation, handleSignUp never
\* calls supabase.auth.signUp, reports the message of the first failing field
\* and nothing else, and the loading flag is false once the handler has
\* ended; the same for handleSignIn and signInWithPassword.
C22_InvalidFormNeverSent ==
  /\ \A i \in 1..Len(auths) :
       FirstErrorOf(auths[i].op) # ""
       => /\ auths[i].pc = "rejected"
          /\ auths[i].toasts = << ErrorToast(FirstErrorOf(auths[i].op)) >>
  /\ \A k \in 1..Len(authCalls) : FirstErrorOf(authCalls[k].op) = ""
  /\ Len(authCalls) = Cardinality({ i \in 1..Len(auths) : auths[i].pc # "rejected" })
  /\ (\A i \in 1..Len(auths) : auths[i].pc # "remote") => ~authLoading

\* a DNI with a letter and a short phone: the DNI message, no call, not loading
C22_Witness ==
  /\ Len(signUpData.fullName) = 3 /\ ZodEmail(signUpData.email)
  /\ Len(signUpData.dni) = 8 /\ signUpData.dni[8] = "x"
  /\ Len(signUpData.phone) = 8
  /\ \E i \in 1..Len(auths) :
       /\ auths[i].op = "signUp"
       /\ auths[i].toasts = << ErrorToast("El DNI debe tener 8 dígitos") >>
  /\ \E i \in 1..Len(auths) :
       /\ auths[i].op = "signIn"
       /\ auths[i].toasts = << ErrorToast("Ingrese su contraseña") >>
  /\ authCalls = << >>
  /\ ~authLoading

\* the invocation's bookings update has returned without error
UpdateReturned(pay) == pay.pc \in {"invokeReceipt", "done"}

\* C23: a booking whose status handlePayment has written as confirmada has a
\* payment row with status completado, its booking_id, the id of the user
\* who paid and an amount equal to the booking's total_amount, inserted by
\* the invocation that wrote the status; an invocation whose insert failed
\* has updated nothing.
C23_ConfirmedHasPayment ==
  /\ \A b \in 1..Len(bookings) :
       bookings[b].status = "confirmada"
       => \E i \in 1..Len(pays) :
            /\ UpdateReturned(pays[i])
            /\ pays[i].payment_id \in 1..Len(payments)
            /\ LET row == payments[pays[i].payment_id] IN
                 /\ row.booking_id = b
                 /\ row.status = "completado"
                 /\ row.user_id = session
                 /\ row.amount = bookings[b].total_amount
  /\ \A i \in 1..Len(pays) :
       pays[i].payment_id = 0 => ~UpdateReturned(pays[i])

\* a receptionist has paid a booking: it is confirmed and its payment is there
C23_Witness ==
  \E b \in 1..Len(bookings) :
    /\ bookings[b].status = "confirmada"
    /\ \E k \in 1..Len(payments) :
         payments[k].booking_id = b /\ payments[k].amount = 250
    /\ \E i \in 1..Len(pays) : pays[i].pc = "failed" /\ pays[i].payment_id = 0

\* the step in which invocation i gives up after its bookings update failed
UpdateFails(i) == pays[i].pc = "updateBooking" /\ pays'[i].pc = "failed"

\* C24: when the payments insert has succeeded and the bookings update
\* returns an error, the completed payment row stays, the booking keeps its
\* status, nothing else is written, generate-receipt is not invoked, an error
\* is reported and processing is false again; none of this is undone later.
C24_PaymentWithoutConfirmation ==
  [][ /\ \A i \in 1..Len(pays) :
           UpdateFails(i)
           => /\ payments' = payments
              /\ payments[pays[i].payment_id] = pays[i].row
              /\ pays[i].row.status = "completado"
              /\ bookings' = bookings
              /\ receipts' = receipts
              /\ location' = location
              /\ pays'[i].toasts # << >>
              /\ pays'[i].toasts[Len(pays'[i].toasts)].kind = "error"
              /\ ~processing'
      /\ \A i \in 1..Len(pays) :
           (pays[i].pc = "failed" /\ pays[i].payment_id # 0)
           => /\ pays'[i] = pays[i]
              /\ payments'[pays[i].payment_id] = pays[i].row
              /\ \A k \in 1..Len(receipts') :
                   receipts'[k].paymentId # pays[i].payment_id ]_vars

\* a completed payment of a booking that is still pendiente, nothing in flight
C24_Witness ==
  \E i \in 1..Len(pays) :
    /\ pays[i].pc = "failed"
    /\ pays[i].payment_id = 1
    /\ payments[1].status = "completado"
    /\ bookings[payments[1].booking_id].status = "pendiente"
    /\ receipts = << >>
    /\ ~processing

\* the invocations whose payments insert has succeeded
Paid == { i \in 1..Len(pays) : pays[i].payment_id # 0 }

\* C25: handlePayment looks neither at the status of the booking nor at its
\* payments: a pending payments insert is admitted whatever the table holds,
\* and every invocation whose insert succeeded has added a completed payment
\* row of its own, also for a booking that is confirmada and paid already.
C25_RepeatedPaymentAccepted ==
  /\ \A i \in 1..Len(pays) :
       pays[i].pc = "insertPayment" => PaymentsInsertPolicy(session, pays[i].row)
  /\ Len(payments) = Cardinality(Paid)
  /\ \A i, j \in Paid :
       /\ pays[i].payment_id \in 1..Len(payments)
       /\ payments[pays[i].payment_id] = pays[i].row
       /\ pays[i].row.status = "completado"
       /\ i # j => pays[i].payment_id # pays[j].payment_id

\* the booking was confirmed by the first payment and paid a second time
C25_Witness ==
  /\ Len(pays) >= 2
  /\ pays[1].pc = "done" /\ pays[2].pc = "done"
  /\ pays[1].row.booking_id = pays[2].row.booking_id
  /\ bookings[pays[1].row.booking_id].status = "confirmada"
  /\ Cardinality({ k \in 1..Len(payments) :
                     /\ payments[k].booking_id = pays[1].row.booking_id
                     /\ payments[k].status = "completado" }) = 2

\* the stays of two Booking rows share a night
StaysOverlap(a, b) ==
  /\ DateGetTime(a.check_in) < DateGetTime(b.check_out)
  /\ DateGetTime(b.check_in) < DateGetTime(a.check_out)

\* C26: no availability check: with Booking rows for the same room and
\* overlapping stays in the table, of the same user or of another, in any
\* order of the requests, no submission is turned away, every pending
\* bookings insert is admitted, and every row stored is a pendiente row of
\* the room.
C26_NoAvailabilityCheck ==
  /\ \A i \in 1..Len(subs) :
       /\ subs[i].pc # "rejected"
       /\ subs[i].pc = "insertBooking" => BookingsInsertPolicy(session, subs[i].row)
  /\ \A i, j \in Inserted :
       /\ subs[i].booking_id \in 1..Len(bookings)
       /\ bookings[subs[i].booking_id].user_id = session
       /\ i # j => subs[i].booking_id # subs[j].booking_id
  /\ Cardinality(Inserted)
       = Cardinality({ b \in 1..Len(bookings) : bookings[b].user_id = session })
  /\ \A b \in 1..Len(bookings) :
       /\ bookings[b].room_id = roomId
       /\ bookings[b].status = "pendiente"

\* the other guest's insert arrived between this user's submit and insert;
\* both rows are stored, for one room and overlapping stays
C26_Witness ==
  /\ Len(bookings) >= 2
  /\ bookings[1].user_id # session
  /\ bookings[2].user_id = session
  /\ bookings[1].room_id = bookings[2].room_id
  /\ StaysOverlap(bookings[1], bookings[2])
  /\ bookings[1].status = "pendiente" /\ bookings[2].status = "pendiente"
  /\ \E i \in 1..Len(subs) : subs[i].pc = "done" /\ subs[i].booking_id = 2

\* C27: the guest count is bounded only from below: a draft with valid
\* dates and at least one guest is accepted whatever the capacity of the
\* room, and the Booking row stored carries the guest count of the draft,
\* also when it exceeds that capacity.
C27_GuestsAboveCapacityStored ==
  /\ \A i \in 1..Len(subs) :
       /\ subs[i].pc # "rejected"
       /\ subs[i].pc = "insertBooking" => subs[i].row.guests = formData.guests
  /\ \A b \in 1..Len(bookings) :
       /\ bookings[b].guests = formData.guests
       /\ bookings[b].room_id = room.id

\* two guests stored for room r1, whose capacity is 1
C27_Witness ==
  /\ room.id = "r1" /\ room.capacity = 1
  /\ \E i \in 1..Len(subs) :
       /\ subs[i].pc = "done"
       /\ bookings[subs[i].booking_id].guests = 2
       /\ bookings[subs[i].booking_id].room_id = "r1"

\* rows of the two tables as any user could have written them
AnyOwner(row) == { [row EXCEPT !.user_id = u] : u \in UserIds }

\* C28: for a session that holds only the client role, the policies let it
\* read only bookings and payments whose user_id is its own and insert only
\* rows carrying its own user_id; the booking the Payment page has loaded,
\* every payment in flight and every payment stored belong to a booking of
\* the session user.
C28_ClientPaysOwnBookingOnly ==
  (session # NoSession /\ ~IsStaff(session)) =>
    /\ \A b \in 1..Len(bookings) : \A row \in AnyOwner(bookings[b]) :
         /\ BookingsSelectPolicy(session, row) => row.user_id = session
         /\ BookingsInsertPolicy(session, row) => row.user_id = session
    /\ \A i \in 1..Len(pays) : \A row \in AnyOwner(pays[i].row) :
         /\ PaymentsSelectPolicy(session, row) => row.user_id = session
         /\ PaymentsInsertPolicy(session, row) => row.user_id = session
    /\ booking # NullBooking => bookings[booking.id].user_id = session
    /\ \A i \in 1..Len(pays) :
         /\ pays[i].row.user_id = session
         /\ bookings[pays[i].row.booking_id].user_id = session
    /\ \A k \in 1..Len(payments) :
         /\ payments[k].user_id = session
         /\ bookings[payments[k].booking_id].user_id = session

\* the client has paid their own booking and then opened the page of the
\* booking of another user, which was not loaded
C28_Witness ==
  /\ session = "u1" /\ ~IsStaff("u1")
  /\ Len(payments) = 1 /\ payments[1].booking_id = 1
  /\ bookingId = 2 /\ bookings[2].user_id = "u2"
  /\ payPending = {}
  /\ booking = NullBooking
  /\ "Error al cargar la reserva" \in notices

\* the ids of the services the form lists
Listed == {services[k].id : k \in 1..Len(services)}

\* C29: after any sequence of handleServiceToggle calls the list holds no id
\* twice and exactly the ids toggled an odd number of times; toggling one
\* service twice leaves the set of selected ids as it was, and toggling two
\* different services in either order gives the same set.
C29_SelectionIsOddToggles ==
  /\ \A i, j \in 1..Len(selectedServices) :
       selectedServices[i] = selectedServices[j] => i = j
  /\ Range(selectedServices) = {id \in ServiceIds : toggleCount[id] % 2 = 1}
  /\ \A a \in Listed :
       Range(ToggleSelection(ToggleSelection(selectedServices, a), a))
         = Range(selectedServices)
  /\ \A a, b \in Listed :
       a # b =>
         Range(ToggleSelection(ToggleSelection(selectedServices, a), b))
           = Range(ToggleSelection(ToggleSelection(selectedServices, b), a))

\* s1 was ticked and unticked, s2 and s3 were ticked once, s3 first
C29_Witness ==
  /\ toggleCount["s1"] = 2 /\ toggleCount["s2"] = 1 /\ toggleCount["s3"] = 1
  /\ selectedServices = << "s3", "s2" >>

SaveInFlight == \E i \in 1..Len(saves) : saves[i].pc = "update"

SavesDone == {i \in 1..Len(saves) : saves[i].pc = "done"}

\* C30: a profile save writes only full_name, phone, address and dni of the
\* row whose id is the session user's id: id and email of every row and the
\* whole row of every other user stay as they were, the row of the session
\* user carries the four values of the last save that succeeded, and the
\* saving flag is false whenever no save is in flight, after a success as
\* after a failure.
C30_SaveWritesOwnFourColumns ==
  /\ \A u \in UserIds :
       /\ profiles[u].id = ProfileRows[u].id
       /\ profiles[u].email = ProfileRows[u].email
       /\ u # session => profiles[u] = ProfileRows[u]
  /\ \A i \in 1..Len(saves) : saves[i].id = session
  /\ SavesDone = {} => profiles = ProfileRows
  /\ SavesDone # {} =>
       LET last == CHOOSE i \in SavesDone : \A j \in SavesDone : j <= i
       IN ProfilePayload(profiles[session]) = saves[last].payload
  /\ saving = SaveInFlight

\* a save has stored a new name and a new phone number
C30_Witness ==
  /\ session = "u1"
  /\ Len(saves) = 1
  /\ saves[1].pc = "done"
  /\ profiles["u1"].phone = "987654321"
  /\ profiles["u1"].full_name = "Ana Rojas"
  /\ ~saving

====
